---------------------------- MODULE Spec2Model ----------------------------
(***************************************************************************)
(* The in-place ZIP/XML metadata rewriter of update_excel_metadata.py:     *)
(* _customUnzip, _infuseMetadata, _customZip and assignMetadataToExcel.    *)
(*                                                                         *)
(* Text is a sequence of atoms (indivisible pieces of a string); a file's  *)
(* content is a sequence of tokens [k, v]; an archive is a sequence of     *)
(* entries; the scratch directory maps a relative path to a node.          *)
(***************************************************************************)
EXTENDS Integers, Sequences, FiniteSets, TLC

(***************************************************************************)
(* Bounds of the model.                                                    *)
(***************************************************************************)
MaxChildren == 3
MaxInfusions == 2
MaxEntries == 3
MaxCalls == 2

(***************************************************************************)
(* Text values: Optional[str].  None is distinct from the empty string.    *)
(***************************************************************************)
None == [some |-> FALSE, s |-> <<>>]
Str(s) == [some |-> TRUE, s |-> s]

SeqsUpTo(S, n) == UNION {[1..m -> S] : m \in 0..n}

(***************************************************************************)
(* The strings given as commit_hash and as release_tag: empty, plain, one  *)
(* holding the word "standalone", one with a character that the            *)
(* serializer escapes.                                                     *)
(***************************************************************************)
CommitValues == {Str(<<>>), Str(<<"abc123">>), Str(<<"standalone">>)}
TagValues == {Str(<<>>), Str(<<"v1.0.0">>), Str(<<"R", "&", "D">>)}

Tok(k, v) == [k |-> k, v |-> v]

(***************************************************************************)
(* ElementTree's _escape_cdata, as tostring applies it to element text,    *)
(* and the XML parser's inverse on character data.                         *)
(***************************************************************************)
EscapeCdata(a) ==
    IF a = "&" THEN "&amp;"
    ELSE IF a = "<" THEN "&lt;"
    ELSE IF a = ">" THEN "&gt;"
    ELSE a

Unescape(v) ==
    IF v = "&amp;" THEN "&"
    ELSE IF v = "&lt;" THEN "<"
    ELSE IF v = "&gt;" THEN ">"
    ELSE v

(***************************************************************************)
(* Qualified names (namespace and local name) of the elements.             *)
(***************************************************************************)
RootTag == "cp:coreProperties"
VersionTag == "cp:version"
KeywordsTag == "cp:keywords"
TitleTag == "dc:title"
ForeignVersionTag == "app:version"

Element(tag, text) == [tag |-> tag, text |-> text]

(***************************************************************************)
(* ET.tostring(root, encoding="UTF-8", xml_declaration=True): the          *)
(* declaration, then the root with its children.  An element whose text is *)
(* None or empty is written in the short form <tag />.                     *)
(***************************************************************************)
SerializeText(s) == [i \in 1..Len(s) |-> Tok("chr", EscapeCdata(s[i]))]

SerializeElement(e) ==
    IF e.text.some /\ Len(e.text.s) > 0
    THEN <<Tok("open", e.tag)>> \o SerializeText(e.text.s) \o <<Tok("close", e.tag)>>
    ELSE <<Tok("empty", e.tag)>>

RECURSIVE SerializeChildren(_)
SerializeChildren(children) ==
    IF children = <<>> THEN <<>>
    ELSE SerializeElement(Head(children)) \o SerializeChildren(Tail(children))

SerializeRoot(children) ==
    IF children = <<>> THEN <<Tok("empty", RootTag)>>
    ELSE <<Tok("open", RootTag)>> \o SerializeChildren(children) \o <<Tok("close", RootTag)>>

TostringDeclaration ==
    <<Tok("decl", "<?xml"), Tok("attr", "version='1.0'"),
      Tok("attr", "encoding='UTF-8'"), Tok("pi_end", "?>")>>

Tostring(children) == TostringDeclaration \o SerializeRoot(children)

(***************************************************************************)
(* "standalone" in updated_xml, and                                        *)
(* updated_xml.replace("?>", ' standalone="yes"?>', 1).                    *)
(***************************************************************************)
StandaloneAttr == Tok("attr", "standalone=\"yes\"")

HasStandaloneSubstring(v) == v \in {"standalone", "standalone=\"yes\""}

ContainsStandalone(xml) == \E i \in 1..Len(xml) : HasStandaloneSubstring(xml[i].v)

FirstPiEnd(xml) ==
    IF \E i \in 1..Len(xml) : xml[i].v = "?>"
    THEN CHOOSE i \in 1..Len(xml) :
            /\ xml[i].v = "?>"
            /\ \A j \in 1..(i - 1) : xml[j].v # "?>"
    ELSE 0

ReplaceFirstPiEnd(xml) ==
    LET i == FirstPiEnd(xml) IN
    IF i = 0 THEN xml
    ELSE SubSeq(xml, 1, i - 1) \o <<StandaloneAttr>> \o SubSeq(xml, i, Len(xml))

EnsureStandalone(xml) ==
    IF ~ContainsStandalone(xml) THEN ReplaceFirstPiEnd(xml) ELSE xml

(***************************************************************************)
(* ET.fromstring: an optional declaration, then the root element with its  *)
(* children.  An element without character data parses with text None.     *)
(***************************************************************************)
ParseError == [ok |-> FALSE, children |-> <<>>]
Parsed(children) == [ok |-> TRUE, children |-> children]

RECURSIVE EndOfText(_, _)
EndOfText(t, i) ==
    IF i <= Len(t) /\ t[i].k = "chr" /\ t[i].v \notin {"&", "<"}
    THEN EndOfText(t, i + 1) ELSE i

RECURSIVE ParseChildren(_, _, _)
ParseChildren(t, i, acc) ==
    IF i > Len(t) THEN ParseError
    ELSE IF t[i] = Tok("close", RootTag)
         THEN IF i = Len(t) THEN Parsed(acc) ELSE ParseError
    ELSE IF t[i].k = "empty"
         THEN ParseChildren(t, i + 1, Append(acc, Element(t[i].v, None)))
    ELSE IF t[i].k = "open"
         THEN LET j == EndOfText(t, i + 1) IN
              IF j <= Len(t) /\ t[j] = Tok("close", t[i].v)
              THEN ParseChildren(t, j + 1, Append(acc, Element(t[i].v,
                       IF j = i + 1 THEN None
                       ELSE Str([n \in 1..(j - i - 1) |-> Unescape(t[i + n].v)]))))
              ELSE ParseError
    ELSE ParseError

RECURSIVE EndOfDeclaration(_, _)
EndOfDeclaration(t, i) ==
    IF i <= Len(t) /\ t[i].k = "attr" THEN EndOfDeclaration(t, i + 1) ELSE i

ParseRoot(t, i) ==
    IF i > Len(t) THEN ParseError
    ELSE IF t[i] = Tok("empty", RootTag)
         THEN IF i = Len(t) THEN Parsed(<<>>) ELSE ParseError
    ELSE IF t[i] = Tok("open", RootTag) THEN ParseChildren(t, i + 1, <<>>)
    ELSE ParseError

Fromstring(t) ==
    IF Len(t) > 0 /\ t[1].k = "decl"
    THEN LET j == EndOfDeclaration(t, 2) IN
         IF j <= Len(t) /\ t[j].k = "pi_end" THEN ParseRoot(t, j + 1) ELSE ParseError
    ELSE ParseRoot(t, 1)

(***************************************************************************)
(* root.find(tag, ns): the index of the first child with that name, or 0.  *)
(***************************************************************************)
Find(children, tag) ==
    IF \E i \in 1..Len(children) : children[i].tag = tag
    THEN CHOOSE i \in 1..Len(children) :
            /\ children[i].tag = tag
            /\ \A j \in 1..(i - 1) : children[j].tag # tag
    ELSE 0

RemoveAt(s, i) == SubSeq(s, 1, i - 1) \o SubSeq(s, i + 1, Len(s))

(***************************************************************************)
(* Variants of SetVersion: one that sets the text only of an element it    *)
(* creates, one that moves an existing element to the end like keywords.   *)
(***************************************************************************)
SetVersionKeepText(children, release_tag) ==
    LET i == Find(children, VersionTag) IN
    IF i = 0 THEN Append(children, Element(VersionTag, release_tag))
    ELSE children

SetVersionMoveLast(children, release_tag) ==
    LET i == Find(children, VersionTag) IN
    IF i = 0 THEN Append(children, Element(VersionTag, release_tag))
    ELSE Append(RemoveAt(children, i), Element(VersionTag, release_tag))

(***************************************************************************)
(* Lines 54-61: update or create the version element.                      *)
(***************************************************************************)
SetVersion(children, release_tag) ==
    LET i == Find(children, VersionTag) IN
    IF i = 0 THEN Append(children, Element(VersionTag, release_tag))
    ELSE [children EXCEPT ![i].text = release_tag]

(***************************************************************************)
(* Variants of SetKeywords: one that appends a new element without         *)
(* removing the one found, one that updates the one found where it is.     *)
(***************************************************************************)
SetKeywordsDuplicating(children, commit_hash) ==
    Append(children, Element(KeywordsTag, commit_hash))

SetKeywordsInPlace(children, commit_hash) ==
    LET i == Find(children, KeywordsTag) IN
    IF i = 0 THEN Append(children, Element(KeywordsTag, commit_hash))
    ELSE [children EXCEPT ![i].text = commit_hash]

(***************************************************************************)
(* Lines 63-74: remove the keywords element if found, set its text, and    *)
(* append it as the last child.                                            *)
(***************************************************************************)
SetKeywords(children, commit_hash) ==
    LET i == Find(children, KeywordsTag) IN
    IF i = 0 THEN Append(children, Element(KeywordsTag, commit_hash))
    ELSE Append(RemoveAt(children, i), Element(KeywordsTag, commit_hash))

(***************************************************************************)
(* Lines 49-82 on the text of core.xml: parse, update, serialize.          *)
(***************************************************************************)
InfuseXml(core_xml, commit_hash, release_tag) ==
    LET p == Fromstring(core_xml) IN
    IF ~p.ok THEN [err |-> "ParseError", xml |-> core_xml]
    ELSE [err |-> "",
          xml |-> EnsureStandalone(
                     Tostring(SetKeywords(SetVersion(p.children, release_tag),
                                          commit_hash)))]


(***************************************************************************)
(* Lines 44-46 and 84-86 around InfuseXml: read tmp_unzipped/docProps/     *)
(* core.xml, rewrite it in place.  open() raises when the path is not a    *)
(* regular file; nothing is written when parsing raises.                   *)
(***************************************************************************)
CorePath == "docProps/core.xml"
WorkbookPath == "xl/workbook.xml"
DirPath == "xl/"
Paths == {CorePath, WorkbookPath, DirPath}

Absent == [t |-> "absent", data |-> <<>>]
Dir == [t |-> "dir", data |-> <<>>]
File(data) == [t |-> "file", data |-> data]

EmptyTree == [n \in Paths |-> Absent]

(* Variant of _infuseMetadata that leaves nothing but core.xml behind. *)
InfuseMetadataWiping(tree, commit_hash, release_tag) ==
    IF tree[CorePath].t # "file"
    THEN [err |-> "FileNotFoundError", tree |-> EmptyTree]
    ELSE LET r == InfuseXml(tree[CorePath].data, commit_hash, release_tag) IN
         IF r.err # "" THEN [err |-> r.err, tree |-> EmptyTree]
         ELSE [err |-> "", tree |-> [EmptyTree EXCEPT ![CorePath] = File(r.xml)]]

InfuseMetadata(tree, commit_hash, release_tag) ==
    IF tree[CorePath].t # "file"
    THEN [err |-> "FileNotFoundError", tree |-> tree]
    ELSE LET r == InfuseXml(tree[CorePath].data, commit_hash, release_tag) IN
         IF r.err # "" THEN [err |-> r.err, tree |-> tree]
         ELSE [err |-> "", tree |-> [tree EXCEPT ![CorePath] = File(r.xml)]]

(***************************************************************************)
(* Archives.  An entry is a ZipInfo (filename, compress_type, date_time)   *)
(* and the member's data; a filename ending in "/" is a directory entry.   *)
(* A file on disk is a ZIP archive or other bytes.                         *)
(***************************************************************************)
Entry(filename, compress_type, date_time, data) ==
    [filename |-> filename, compress_type |-> compress_type,
     date_time |-> date_time, data |-> data]

ZipInfo(e) ==
    [filename |-> e.filename, compress_type |-> e.compress_type,
     date_time |-> e.date_time]

IsDirName(filename) == filename = DirPath

Archive(entries) == [zip |-> TRUE, entries |-> entries, raw |-> ""]
NotAZip(raw) == [zip |-> FALSE, entries |-> <<>>, raw |-> raw]

(***************************************************************************)
(* zip_ref.extractall(tmp_dir): every member in archive order; a directory *)
(* entry makes a directory, a file entry creates or overwrites the file at *)
(* its relative path.  What the directory already held stays.              *)
(***************************************************************************)
(* Variant of extractall that keeps a file the directory already holds. *)
RECURSIVE ExtractAllKeeping(_, _)
ExtractAllKeeping(entries, tree) ==
    IF entries = <<>> THEN tree
    ELSE LET e == Head(entries) IN
         ExtractAllKeeping(Tail(entries),
                    [tree EXCEPT ![e.filename] =
                        IF tree[e.filename].t = "file" THEN @
                        ELSE IF IsDirName(e.filename) THEN Dir ELSE File(e.data)])

RECURSIVE ExtractAll(_, _)
ExtractAll(entries, tree) ==
    IF entries = <<>> THEN tree
    ELSE LET e == Head(entries) IN
         ExtractAll(Tail(entries),
                    [tree EXCEPT ![e.filename] =
                        IF IsDirName(e.filename) THEN Dir ELSE File(e.data)])

(***************************************************************************)
(* Variant of _customUnzip that takes a file that is no archive for an     *)
(* empty one.                                                              *)
(***************************************************************************)
CustomUnzipLenient(file, tree) ==
    [err |-> "",
     infos |-> [i \in 1..Len(file.entries) |-> ZipInfo(file.entries[i])],
     tree |-> ExtractAll(file.entries, tree)]

(***************************************************************************)
(* _customUnzip, lines 26-30.  ZipFile(input_excel, "r") raises BadZipFile *)
(* on a file that is no archive, before anything is extracted.             *)
(***************************************************************************)
CustomUnzip(file, tree) ==
    IF ~file.zip
    THEN [err |-> "BadZipFile", infos |-> <<>>, tree |-> tree]
    ELSE [err |-> "",
          infos |-> [i \in 1..Len(file.entries) |-> ZipInfo(file.entries[i])],
          tree |-> ExtractAll(file.entries, tree)]

(***************************************************************************)
(* The loop of _customZip, lines 17-21: for each info, open the file at    *)
(* tmp_dir/info.filename (raises unless it is a regular file), read it,    *)
(* and writestr(info, data).  acc holds the entries written so far.        *)
(***************************************************************************)
OpenError(node) ==
    IF node.t = "dir" THEN "IsADirectoryError" ELSE "FileNotFoundError"

(* Variant of the loop that skips a member it cannot read. *)
RECURSIVE WriteEntriesSkipping(_, _, _)
WriteEntriesSkipping(infos, tree, acc) ==
    IF infos = <<>> THEN [err |-> "", entries |-> acc]
    ELSE LET info == Head(infos)
             node == tree[info.filename] IN
         IF node.t # "file"
         THEN WriteEntriesSkipping(Tail(infos), tree, acc)
         ELSE WriteEntriesSkipping(Tail(infos), tree,
                  Append(acc, Entry(info.filename, info.compress_type,
                                    info.date_time, node.data)))

(* Variant of the loop that writes each member under a fresh ZipInfo made  *)
(* from its name only.                                                     *)
RECURSIVE WriteEntriesFreshInfo(_, _, _)
WriteEntriesFreshInfo(infos, tree, acc) ==
    IF infos = <<>> THEN [err |-> "", entries |-> acc]
    ELSE LET info == Head(infos)
             node == tree[info.filename] IN
         IF node.t # "file"
         THEN [err |-> OpenError(node), entries |-> acc]
         ELSE WriteEntriesFreshInfo(Tail(infos), tree,
                  Append(acc, Entry(info.filename, "stored", "1980", node.data)))

RECURSIVE WriteEntries(_, _, _)
WriteEntries(infos, tree, acc) ==
    IF infos = <<>> THEN [err |-> "", entries |-> acc]
    ELSE LET info == Head(infos)
             node == tree[info.filename] IN
         IF node.t # "file"
         THEN [err |-> OpenError(node), entries |-> acc]
         ELSE WriteEntries(Tail(infos), tree,
                  Append(acc, Entry(info.filename, info.compress_type,
                                    info.date_time, node.data)))

(* Variant of _customZip that removes the directory in a finally clause. *)
CustomZipCleaning(tree, infos) ==
    LET r == WriteEntries(infos, tree, <<>>) IN
    [err |-> r.err, file |-> Archive(r.entries), tree |-> EmptyTree]

(* Variant of _customZip without the rmtree. *)
CustomZipKeepTree(tree, infos) ==
    LET r == WriteEntries(infos, tree, <<>>) IN
    [err |-> r.err, file |-> Archive(r.entries), tree |-> tree]

(***************************************************************************)
(* _customZip, lines 15-23.  ZipFile(output_file, "w") truncates the file; *)
(* when the loop raises, leaving the with block closes the archive with    *)
(* the entries written so far and rmtree is not reached.                   *)
(***************************************************************************)
CustomZip(tree, infos) ==
    LET w == WriteEntries(infos, tree, <<>>) IN
    [err |-> w.err,
     file |-> Archive(w.entries),
     tree |-> IF w.err = "" THEN EmptyTree ELSE tree]

(***************************************************************************)
(* State.                                                                  *)
(***************************************************************************)
VARIABLES
    files,      \* package path -> content of the file on disk
    scratch,    \* the directory tmp_unzipped: relative path -> node
    pc,         \* per invocation: position in assignMetadataToExcel
    args,       \* per invocation: input_file, commit_hash, release_tag
    infos,      \* per invocation: the local infos
    error,      \* per invocation: the exception that ended it, or ""
    calls,      \* per invocation: the helper calls made so far, in order
    before,     \* per invocation: content of input_file when it was called
    ncalls,     \* invocations started so far
    infusions,  \* direct _infuseMetadata calls made so far
    core0,      \* children of core.xml before the first direct infusion
    overlap,    \* an invocation started while another one was running
    env,        \* environment of the process running main
    exit_status,\* exit status of that process, or None while it runs
    stdout,     \* lines that process printed
    book,       \* the file given to check_ref_errors
    result,     \* what check_ref_errors returned, once it was called
    cliInput,   \* check_excel_refs.main: EXCEL_FILE, EXPORT_SHEETS, sys.argv
    cli,        \* check_excel_refs.main: position and locals
    exits,      \* check_excel_refs.main: the sys.exit calls made, in order
    csvdir,     \* the files of the export directory: name -> content
    sop,        \* upload_sop: position and module variables
    sent,       \* upload_sop: the HTTP requests sent, in order
    wait,       \* wait_for_checks: position, locals and clock
    status_info, \* wait_for_checks: what the last poll fetched
    e2e,        \* the end-to-end test: position, test_branches, test_prs
    remote      \* the xl-test repository: what was created and attempted

mainVars == <<env, exit_status, stdout>>
refVars == <<book, result>>
cliVars == <<cliInput, cli, exits, csvdir>>
sopVars == <<sop, sent>>
e2eVars == <<e2e, remote>>
waitVars == <<wait, status_info>>
extVars == <<cliVars, sopVars, waitVars, e2eVars>>

vars == <<files, scratch, pc, args, infos, error, calls, before, ncalls,
          infusions, core0, overlap, mainVars, refVars, extVars>>

Procs == {1, 2}
Pkgs == {"book.xlsx", "other.xlsx"}
TmpDir == "tmp_unzipped"

EnvNames == {"EXCEL_FILE", "COMMIT_HASH", "RELEASE_TAG"}
NoEnv == [n \in EnvNames |-> None]

NoBook == [exists |-> FALSE, valid |-> FALSE, sharedStrings |-> FALSE, sheets |-> <<>>,
           defined_names |-> <<>>]
NotCalled == [done |-> FALSE, none |-> FALSE, list |-> <<>>]

StillRunning == [exited |-> FALSE, code |-> 0]
Exited(code) == [exited |-> TRUE, code |-> code]

(***************************************************************************)
(* The other scripts of the repository before they are started.            *)
(***************************************************************************)
NoValue == [some |-> FALSE, stem |-> "", suffix |-> ""]
NoCliInput == [EXCEL_FILE |-> NoValue, EXPORT_SHEETS |-> None, argv |-> <<>>,
               patched |-> FALSE]
NoCli == [pc |-> "idle", excel_file |-> NoValue, export_sheets |-> FALSE,
          checked |-> FALSE, exporting |-> FALSE]
NoResponse == [status_code |-> 0, text |-> ""]
NoSop == [pc |-> "idle", QUALER_EMAIL |-> None, QUALER_PASSWORD |-> None,
          file_exists |-> FALSE, csrf_cookie |-> FALSE,
          response |-> NoResponse, sop_response |-> NoResponse,
          csrf_token_value |-> FALSE, upload_response |-> NoResponse,
          exit |-> StillRunning]
NoStatusInfo ==
    [pr |-> [mergeable |-> "absent", state |-> "open", merged |-> "false"],
     status |-> [state |-> "pending"],
     checks |-> [check_runs |-> <<>>]]
NoWait == [pc |-> "idle", timeout |-> 0, clock |-> 0, poll_interval |-> 0,
           checks_started |-> FALSE, value |-> FALSE, error |-> ""]
NoE2e == [pc |-> "idle", test_branches |-> <<>>, test_prs |-> <<>>,
          failed |-> FALSE, next |-> 1]
NoRemote == [branches |-> {}, prs |-> {}, attempts |-> <<>>]

CliIdle ==
    /\ cliInput = NoCliInput
    /\ cli = NoCli
    /\ exits = <<>>
    /\ csvdir = {}

SopIdle ==
    /\ sop = NoSop
    /\ sent = <<>>

WaitIdle ==
    /\ wait = NoWait
    /\ status_info = NoStatusInfo

E2eIdle ==
    /\ e2e = NoE2e
    /\ remote = NoRemote

ExtIdle == CliIdle /\ SopIdle /\ WaitIdle /\ E2eIdle


NoArgs == [input_file |-> "", commit_hash |-> None, release_tag |-> None]

CallRec(op, file, commit_hash, release_tag, members) ==
    [op |-> op, file |-> file, commit_hash |-> commit_hash,
     release_tag |-> release_tag, infos |-> members]

(***************************************************************************)
(* Inputs.                                                                 *)
(***************************************************************************)
InputDeclaration ==
    <<Tok("decl", "<?xml"), Tok("attr", "version=\"1.0\""),
      Tok("attr", "encoding=\"UTF-8\""), StandaloneAttr, Tok("pi_end", "?>")>>

InputXml(children) == InputDeclaration \o SerializeRoot(children)

Truncated(xml) == SubSeq(xml, 1, Len(xml) - 1)

InputElements ==
    {Element(VersionTag, Str(<<"old">>)),
     Element(KeywordsTag, Str(<<"old">>)),
     Element(TitleTag, Str(<<"T">>)),
     Element(TitleTag, Str(<<"standalone">>)),
     Element(ForeignVersionTag, Str(<<"16.0">>))}

InputChildren == SeqsUpTo(InputElements, MaxChildren)

Bytes(b) == <<Tok("bytes", b)>>

CoreNew == InputXml(<<Element(TitleTag, Str(<<"T">>))>>)
CoreOld == InputXml(<<Element(KeywordsTag, Str(<<"old">>)),
                      Element(VersionTag, Str(<<"old">>)),
                      Element(TitleTag, Str(<<"T">>))>>)
CoreMalformed == Truncated(CoreNew)

EntryChoices ==
    {Entry(CorePath, "deflated", "2024", CoreNew),
     Entry(CorePath, "deflated", "2024", CoreOld),
     Entry(CorePath, "stored", "1980", CoreMalformed),
     Entry(WorkbookPath, "deflated", "2024", Bytes("W1")),
     Entry(WorkbookPath, "stored", "1980", Bytes("W2")),
     Entry(DirPath, "stored", "1980", <<>>)}

Packages ==
    {Archive(es) : es \in SeqsUpTo(EntryChoices, MaxEntries)}
        \cup {NotAZip("garbage")}

Commits == {Str(<<"abc123">>), Str(<<"standalone">>)}
ReleaseTags == {Str(<<"v1.0.0">>), Str(<<>>)}

(***************************************************************************)
(* assignMetadataToExcel, lines 8-12, one action per statement.  An        *)
(* exception of a helper ends the invocation: nothing catches it.          *)
(***************************************************************************)
(***************************************************************************)
(* A path names a package in the working directory, or no file at all;     *)
(* NonePath stands for Python's None given where a path is expected.       *)
(* ZipFile(path, "r"), line 27, raises on both before it reads anything.   *)
(***************************************************************************)
NonePath == "<None>"
MissingPath == "missing.xlsx"

Disk(f) == IF f \in Pkgs THEN files[f] ELSE NotAZip("")

ZipFileError(f) ==
    IF f = NonePath THEN "AttributeError" ELSE "FileNotFoundError"

CustomUnzipPath(f, tree) ==
    IF f \in Pkgs THEN CustomUnzip(files[f], tree)
    ELSE [err |-> ZipFileError(f), infos |-> <<>>, tree |-> tree]

Running(p) == pc[p] \in {"called", "unzipped", "infused"}

Call(p, f, c, t) ==
    /\ pc[p] = "idle"
    /\ ncalls < MaxCalls
    /\ pc' = [pc EXCEPT ![p] = "called"]
    /\ args' = [args EXCEPT ![p] =
                   [input_file |-> f, commit_hash |-> c, release_tag |-> t]]
    /\ infos' = [infos EXCEPT ![p] = <<>>]
    /\ error' = [error EXCEPT ![p] = ""]
    /\ calls' = [calls EXCEPT ![p] = <<>>]
    /\ before' = [before EXCEPT ![p] = Disk(f)]
    /\ ncalls' = ncalls + 1
    /\ overlap' = (overlap \/ \E q \in Procs \ {p} : Running(q))
    /\ UNCHANGED <<files, scratch, infusions, core0, mainVars, refVars, extVars>>

Unzip(p) ==
    /\ pc[p] = "called"
    /\ LET r == CustomUnzipPath(args[p].input_file, scratch) IN
       /\ calls' = [calls EXCEPT ![p] =
              Append(@, CallRec("_customUnzip", args[p].input_file, None, None, <<>>))]
       /\ scratch' = r.tree
       /\ infos' = [infos EXCEPT ![p] = r.infos]
       /\ error' = [error EXCEPT ![p] = r.err]
       /\ pc' = [pc EXCEPT ![p] = IF r.err = "" THEN "unzipped" ELSE "raised"]
    /\ UNCHANGED <<files, args, before, ncalls, infusions, core0, overlap, mainVars, refVars, extVars>>

(* Variant of the second statement that tries again when it raised. *)
InfuseRetrying(p) ==
    /\ pc[p] = "unzipped"
    /\ LET r == InfuseMetadata(scratch, args[p].commit_hash, args[p].release_tag) IN
       /\ calls' = [calls EXCEPT ![p] =
              Append(@, CallRec("_infuseMetadata", "", args[p].commit_hash,
                                args[p].release_tag, <<>>))]
       /\ scratch' = r.tree
       /\ error' = [error EXCEPT ![p] = ""]
       /\ pc' = [pc EXCEPT ![p] = IF r.err = "" THEN "infused" ELSE "unzipped"]
    /\ UNCHANGED <<files, args, infos, before, ncalls, infusions, core0, overlap, mainVars, refVars, extVars>>

(* Variant of the second statement that swallows the exception. *)
InfuseSwallowing(p) ==
    /\ pc[p] = "unzipped"
    /\ LET r == InfuseMetadata(scratch, args[p].commit_hash, args[p].release_tag) IN
       /\ calls' = [calls EXCEPT ![p] =
              Append(@, CallRec("_infuseMetadata", "", args[p].commit_hash,
                                args[p].release_tag, <<>>))]
       /\ scratch' = r.tree
       /\ error' = [error EXCEPT ![p] = r.err]
       /\ pc' = [pc EXCEPT ![p] = "infused"]
    /\ UNCHANGED <<files, args, infos, before, ncalls, infusions, core0, overlap, mainVars, refVars, extVars>>

Infuse(p) ==
    /\ pc[p] = "unzipped"
    /\ LET r == InfuseMetadata(scratch, args[p].commit_hash, args[p].release_tag) IN
       /\ calls' = [calls EXCEPT ![p] =
              Append(@, CallRec("_infuseMetadata", "", args[p].commit_hash,
                                args[p].release_tag, <<>>))]
       /\ scratch' = r.tree
       /\ error' = [error EXCEPT ![p] = r.err]
       /\ pc' = [pc EXCEPT ![p] = IF r.err = "" THEN "infused" ELSE "raised"]
    /\ UNCHANGED <<files, args, infos, before, ncalls, infusions, core0, overlap, mainVars, refVars, extVars>>

Zip(p) ==
    /\ pc[p] = "infused"
    /\ LET r == CustomZip(scratch, infos[p]) IN
       /\ calls' = [calls EXCEPT ![p] =
              Append(@, CallRec("_customZip", args[p].input_file, None, None, infos[p]))]
       /\ files' = [files EXCEPT ![args[p].input_file] = r.file]
       /\ scratch' = r.tree
       /\ error' = [error EXCEPT ![p] = r.err]
       /\ pc' = [pc EXCEPT ![p] = IF r.err = "" THEN "returned" ELSE "raised"]
    /\ UNCHANGED <<args, infos, before, ncalls, infusions, core0, overlap, mainVars, refVars, extVars>>

(***************************************************************************)
(* The caller goes on after the invocation returned or raised.             *)
(***************************************************************************)
Resume(p) ==
    /\ pc[p] \in {"returned", "raised"}
    /\ pc' = [pc EXCEPT ![p] = "idle"]
    /\ UNCHANGED <<files, scratch, args, infos, error, calls, before, ncalls,
                   infusions, core0, overlap, mainVars, refVars, extVars>>

(***************************************************************************)
(* Spec: invocations of assignMetadataToExcel on book.xlsx, one after the  *)
(* other, from a working directory without tmp_unzipped.                   *)
(***************************************************************************)
Init ==
    /\ files \in [Pkgs -> Packages]
    /\ files["other.xlsx"] = NotAZip("garbage")
    /\ scratch = EmptyTree
    /\ pc = [p \in Procs |-> "idle"]
    /\ args = [p \in Procs |-> NoArgs]
    /\ infos = [p \in Procs |-> <<>>]
    /\ error = [p \in Procs |-> ""]
    /\ calls = [p \in Procs |-> <<>>]
    /\ before = [p \in Procs |-> NotAZip("")]
    /\ ncalls = 0
    /\ infusions = 0
    /\ core0 = <<>>
    /\ overlap = FALSE
    /\ env = NoEnv
    /\ exit_status = StillRunning
    /\ stdout = <<>>
    /\ book = NoBook
    /\ result = NotCalled
    /\ ExtIdle

Next ==
    \/ \E c \in Commits, t \in ReleaseTags : Call(1, "book.xlsx", c, t)
    \/ Unzip(1)
    \/ Infuse(1)
    \/ Zip(1)
    \/ Resume(1)

Spec == Init /\ [][Next]_vars

(***************************************************************************)
(* SpecInfuse: _infuseMetadata called directly, possibly several times, on *)
(* a scratch directory holding a core.xml (as the tests call it).          *)
(***************************************************************************)
InfuseDirect(c, t) ==
    /\ infusions < MaxInfusions
    /\ error[1] = ""
    /\ LET r == InfuseMetadata(scratch, c, t) IN
       /\ scratch' = r.tree
       /\ error' = [error EXCEPT ![1] = r.err]
    /\ args' = [args EXCEPT ![1] =
                   [input_file |-> "", commit_hash |-> c, release_tag |-> t]]
    /\ infusions' = infusions + 1
    /\ UNCHANGED <<files, pc, infos, calls, before, ncalls, core0, overlap,
                   mainVars, refVars, extVars>>

InitInfuse ==
    /\ files = [f \in Pkgs |-> NotAZip("garbage")]
    /\ \E ch \in InputChildren :
          /\ core0 = ch
          /\ \/ scratch = [EmptyTree EXCEPT ![CorePath] = File(InputXml(ch)),
                                            ![WorkbookPath] = File(Bytes("W1"))]
             \/ /\ ch = <<>>
                /\ scratch \in {[EmptyTree EXCEPT ![CorePath] = File(CoreMalformed)],
                                EmptyTree}
    /\ pc = [p \in Procs |-> "idle"]
    /\ args = [p \in Procs |-> NoArgs]
    /\ infos = [p \in Procs |-> <<>>]
    /\ error = [p \in Procs |-> ""]
    /\ calls = [p \in Procs |-> <<>>]
    /\ before = [p \in Procs |-> NotAZip("")]
    /\ ncalls = 0
    /\ infusions = 0
    /\ overlap = FALSE
    /\ env = NoEnv
    /\ exit_status = StillRunning
    /\ stdout = <<>>
    /\ book = NoBook
    /\ result = NotCalled
    /\ ExtIdle

NextInfuse == \E c \in CommitValues, t \in TagValues : InfuseDirect(c, t)

SpecInfuse == InitInfuse /\ [][NextInfuse]_vars


(***************************************************************************)
(* Vocabulary of the properties.                                           *)
(***************************************************************************)
Package(p) == files[args[p].input_file]
Returned(p) == pc[p] = "returned"
Raised(p) == pc[p] = "raised"
LastCall(p) == calls[p][Len(calls[p])].op

CountNamed(entries, n) ==
    Cardinality({i \in 1..Len(entries) : entries[i].filename = n})

CountMember(entries, n, data) ==
    Cardinality({i \in 1..Len(entries) :
                    entries[i].filename = n /\ entries[i].data = data})

HasCore(file) == file.zip /\ CountNamed(file.entries, CorePath) > 0

InfosOf(file) == [i \in 1..Len(file.entries) |-> ZipInfo(file.entries[i])]

(* C1: after assignMetadataToExcel returned, the package holds the same    *)
(* archive entries as before the call: every path as often as before, and *)
(* the same number of entries.                                             *)
C1_SameEntries ==
    Returned(1) =>
        /\ Package(1).zip
        /\ Len(Package(1).entries) = Len(before[1].entries)
        /\ \A n \in Paths :
              CountNamed(Package(1).entries, n) = CountNamed(before[1].entries, n)

C1_Witness ==
    /\ Returned(1)
    /\ HasCore(before[1])
    /\ Len(before[1].entries) >= 2
    /\ CountNamed(before[1].entries, WorkbookPath) > 0

(* C2: after assignMetadataToExcel returned, every member of the original  *)
(* package other than docProps/core.xml is in the output package as often  *)
(* as it was in the original, with the same path and the same content.     *)
C2_MembersPreserved ==
    Returned(1) =>
        \A i \in 1..Len(before[1].entries) :
            LET m == before[1].entries[i] IN
            m.filename # CorePath =>
                CountMember(Package(1).entries, m.filename, m.data)
                    = CountMember(before[1].entries, m.filename, m.data)

(* C3: an invocation calls _customUnzip(input_file), then                  *)
(* _infuseMetadata(commit_hash, release_tag), then _customZip(input_file,  *)
(* infos) with the member list of the archive as it was unpacked, each at  *)
(* most once and in that order; an invocation that returned has made all   *)
(* three calls, one that raised stopped at the call that raised.           *)
ExpectedCalls(p) ==
    <<CallRec("_customUnzip", args[p].input_file, None, None, <<>>),
      CallRec("_infuseMetadata", "", args[p].commit_hash, args[p].release_tag, <<>>),
      CallRec("_customZip", args[p].input_file, None, None, InfosOf(before[p]))>>

C3_OneCycleInOrder ==
    /\ Len(calls[1]) <= 3
    /\ calls[1] = SubSeq(ExpectedCalls(1), 1, Len(calls[1]))
    /\ Returned(1) => Len(calls[1]) = 3
    /\ pc[1] = "called" => Len(calls[1]) = 0
    /\ pc[1] = "unzipped" => Len(calls[1]) = 1
    /\ pc[1] = "infused" => Len(calls[1]) = 2
    /\ Raised(1) => Len(calls[1]) >= 1

C3_Witness ==
    /\ Returned(1)
    /\ Len(calls[1]) = 3
    /\ Len(calls[1][3].infos) >= 2

(* C9: an invocation on a file that is not a ZIP archive raises            *)
(* BadZipFile from the unpack, makes no further call, and the file keeps   *)
(* the content it had before the invocation.                               *)
C9_NotAZipUntouched ==
    (calls[1] # <<>> /\ ~before[1].zip) =>
        /\ pc[1] \in {"raised", "idle"}
        /\ error[1] = "BadZipFile"
        /\ Len(calls[1]) = 1
        /\ Package(1) = before[1]

C9_Witness ==
    /\ Raised(1)
    /\ ~before[1].zip
    /\ error[1] = "BadZipFile"

(* C10: when _customZip raised, the package file holds either its          *)
(* complete original content or a complete new archive with one entry per  *)
(* member record.                                                          *)
C10_RepackFailureKeepsPackage ==
    (Raised(1) /\ LastCall(1) = "_customZip") =>
        \/ Package(1) = before[1]
        \/ /\ Package(1).zip
           /\ Len(Package(1).entries) = Len(infos[1])

(***************************************************************************)
(* Vocabulary of the properties of the Infuser.                            *)
(***************************************************************************)
Infused == infusions >= 1 /\ error[1] = ""
Out == Fromstring(scratch[CorePath].data)
OutChildren == Out.children

Count(children, tag) ==
    Cardinality({i \in 1..Len(children) : children[i].tag = tag})

TextOf(children, tag) == children[Find(children, tag)].text

NonEmpty(text) == text.some /\ Len(text.s) > 0

(* The text with which an element given the value v parses back. *)
ParsedText(v) == IF NonEmpty(v) THEN v ELSE None

RECURSIVE Others(_)
Others(children) ==
    IF children = <<>> THEN <<>>
    ELSE IF Head(children).tag = KeywordsTag THEN Others(Tail(children))
    ELSE <<Head(children).tag>> \o Others(Tail(children))

Max(a, b) == IF a >= b THEN a ELSE b

(* C4, as stated: after _infuseMetadata(commit_hash, release_tag) the      *)
(* written document parses back with a cp:version element whose text       *)
(* equals release_tag and a cp:keywords element whose text equals          *)
(* commit_hash.                                                            *)
C4_TextEqualsValue ==
    LET ch == OutChildren IN
        Infused =>
            /\ Out.ok
            /\ Find(ch, VersionTag) # 0
            /\ Find(ch, KeywordsTag) # 0
            /\ TextOf(ch, VersionTag) = args[1].release_tag
            /\ ch[Len(ch)] = Element(KeywordsTag, args[1].commit_hash)

(* C4, amended: after _infuseMetadata(commit_hash, release_tag) the        *)
(* written document parses back with a cp:version element and a            *)
(* cp:keywords element; the text of each equals the value given when that  *)
(* value is not empty, and the element has no text (None) when the value   *)
(* is the empty string.                                                    *)
C4_TextEqualsNonEmptyValue ==
    LET ch == OutChildren IN
        Infused =>
            /\ Out.ok
            /\ Find(ch, VersionTag) # 0
            /\ Find(ch, KeywordsTag) # 0
            /\ TextOf(ch, VersionTag) = ParsedText(args[1].release_tag)
            /\ ch[Len(ch)]
                  = Element(KeywordsTag, ParsedText(args[1].commit_hash))

C4_Witness ==
    LET ch == OutChildren IN
        /\ Infused
        /\ Count(core0, VersionTag) = 0
        /\ Count(core0, KeywordsTag) = 0
        /\ Count(core0, ForeignVersionTag) > 0
        /\ args[1].release_tag = Str(<<"R", "&", "D">>)
        /\ args[1].commit_hash = Str(<<"abc123">>)
        /\ TextOf(ch, VersionTag) = args[1].release_tag

(* C5, as stated: after two or more successive infusions the document has  *)
(* exactly one cp:version and exactly one cp:keywords element, whose texts *)
(* are the values of the last invocation.                                  *)
C5_ExactlyOneEach ==
    LET ch == OutChildren IN
        (infusions >= 2 /\ error[1] = "") =>
            /\ Count(ch, VersionTag) = 1
            /\ Count(ch, KeywordsTag) = 1
            /\ TextOf(ch, VersionTag) = args[1].release_tag
            /\ TextOf(ch, KeywordsTag) = args[1].commit_hash

(* C5, amended: successive infusions never add a cp:version or cp:keywords *)
(* element to a document that has one: after any number of infusions the   *)
(* document has as many of each as it had at first, and one where it had   *)
(* none; so a document that began with at most one of each has exactly one *)
(* of each.  The first cp:version and the last cp:keywords carry the       *)
(* values of the last invocation only (no text for an empty value).        *)
C5_NoDuplicatesAdded ==
    LET ch == OutChildren IN
        Infused =>
            /\ Count(ch, VersionTag) = Max(1, Count(core0, VersionTag))
            /\ Count(ch, KeywordsTag) = Max(1, Count(core0, KeywordsTag))
            /\ TextOf(ch, VersionTag) = ParsedText(args[1].release_tag)
            /\ ch[Len(ch)].text = ParsedText(args[1].commit_hash)

C5_Witness ==
    LET ch == OutChildren IN
        /\ infusions >= 2
        /\ error[1] = ""
        /\ Count(core0, VersionTag) = 0
        /\ Count(core0, KeywordsTag) = 1
        /\ Count(ch, VersionTag) = 1
        /\ Count(ch, KeywordsTag) = 1
        /\ NonEmpty(args[1].release_tag)

(* C6: after every successful infusion the last child of the root is the   *)
(* cp:keywords element that carries the commit value.                      *)
C6_KeywordsLast ==
    LET ch == OutChildren IN
        Infused =>
            /\ Len(ch) >= 1
            /\ ch[Len(ch)].tag = KeywordsTag
            /\ ch[Len(ch)].text = ParsedText(args[1].commit_hash)

(* keywords was in the middle on input *)
C6_Witness ==
    LET ch == OutChildren IN
        /\ Infused
        /\ infusions = 1
        /\ Len(core0) = 3
        /\ Find(core0, KeywordsTag) = 2
        /\ Count(core0, KeywordsTag) = 1
        /\ ch[3].tag = KeywordsTag

(* C7, as stated: on output cp:version and cp:keywords are present, not    *)
(* empty, and the last two children of the root, version second to last    *)
(* and keywords last.                                                      *)
C7_LastTwoNonEmpty ==
    LET ch == OutChildren IN
        Infused =>
            /\ Len(ch) >= 2
            /\ ch[Len(ch)].tag = KeywordsTag
            /\ ch[Len(ch) - 1].tag = VersionTag
            /\ NonEmpty(ch[Len(ch)].text)
            /\ NonEmpty(ch[Len(ch) - 1].text)

(* C7, amended: on output cp:version and cp:keywords are present and       *)
(* keywords is the last child.  The children other than keywords keep      *)
(* their input order; a version element that existed on input keeps its    *)
(* place among them, one that was absent is created after all of them, so  *)
(* that it is second to last when the document has a single keywords       *)
(* element.  Each of the two is non-empty exactly when the value given for *)
(* it is non-empty.                                                        *)
C7_VersionKeepsPlace ==
    LET ch == OutChildren IN
        Infused =>
            /\ Len(ch) >= 2
            /\ ch[Len(ch)].tag = KeywordsTag
            /\ Find(ch, VersionTag) # 0
            /\ Count(core0, VersionTag) = 0 =>
                  /\ Others(ch) = Others(core0) \o <<VersionTag>>
                  /\ Count(ch, KeywordsTag) = 1 =>
                        ch[Len(ch) - 1].tag = VersionTag
            /\ Count(core0, VersionTag) > 0 => Others(ch) = Others(core0)
            /\ NonEmpty(ch[Len(ch)].text) <=> NonEmpty(args[1].commit_hash)
            /\ NonEmpty(TextOf(ch, VersionTag)) <=> NonEmpty(args[1].release_tag)

(* version existed before another child on input *)
C7_Witness ==
    LET ch == OutChildren IN
        /\ Infused
        /\ Len(core0) >= 2
        /\ core0[1].tag = VersionTag
        /\ core0[2].tag = TitleTag
        /\ ch[1].tag = VersionTag
        /\ ch[Len(ch) - 1].tag # VersionTag

(* C8: the core.xml text written by a successful infusion begins with an   *)
(* XML declaration that names the UTF-8 encoding and has standalone="yes". *)
DeclarationOf(xml) == SubSeq(xml, 1, FirstPiEnd(xml))

C8_DeclarationStandalone ==
    Infused =>
        LET xml == scratch[CorePath].data
            d == DeclarationOf(xml) IN
        /\ Len(d) >= 2
        /\ d[1] = Tok("decl", "<?xml")
        /\ \E i \in 1..Len(d) : d[i] = Tok("attr", "encoding='UTF-8'")
        /\ \E i \in 1..Len(d) : d[i] = StandaloneAttr

(***************************************************************************)
(* Properties of the failure paths and of the scratch directory.           *)
(***************************************************************************)
ZipStep == pc[1] = "infused" /\ pc'[1] # "infused"
HoldsFiles(tree) == \E n \in Paths : tree[n].t = "file"

(* C11: when _customZip raises, the scratch directory and every file in it *)
(* are as they were when it was called; a step removes the scratch         *)
(* directory only when it is the _customZip that returned, after it wrote  *)
(* one entry per member record to the package.                             *)
C11_ScratchKeptOnRepackFailure ==
    [][ /\ (ZipStep /\ pc'[1] = "raised") => scratch' = scratch
        /\ (scratch # EmptyTree /\ scratch' = EmptyTree) =>
               /\ ZipStep
               /\ pc'[1] = "returned"
               /\ files'[args[1].input_file].zip
               /\ Len(files'[args[1].input_file].entries) = Len(infos[1]) ]_vars

C11_Witness ==
    /\ Raised(1)
    /\ LastCall(1) = "_customZip"
    /\ error[1] = "IsADirectoryError"
    /\ scratch[CorePath].t = "file"
    /\ HoldsFiles(scratch)

CalledZip(p) == \E i \in 1..Len(calls[p]) : calls[p][i].op = "_customZip"

FailedBeforeZip(p) ==
    /\ calls[p] # <<>>
    /\ error[p] # ""
    /\ LastCall(p) \in {"_customUnzip", "_infuseMetadata"}

(* C12: when _customUnzip or _infuseMetadata raises inside                 *)
(* assignMetadataToExcel, the invocation ends there with the exception the *)
(* helper raised, _customZip is not called, and the package file is what   *)
(* it was before the call.                                                 *)
C12_EarlyFailureLeavesPackage ==
    FailedBeforeZip(1) =>
        /\ pc[1] \in {"raised", "idle"}
        /\ ~CalledZip(1)
        /\ Package(1) = before[1]
        /\ LastCall(1) = "_customUnzip" =>
               /\ error[1] = "BadZipFile"
               /\ error[1] = CustomUnzip(before[1], scratch).err
        /\ LastCall(1) = "_infuseMetadata" =>
               /\ error[1] \in {"FileNotFoundError", "ParseError"}
               /\ error[1] = InfuseMetadata(scratch, args[1].commit_hash,
                                            args[1].release_tag).err

C12_Witness ==
    /\ Raised(1)
    /\ LastCall(1) = "_infuseMetadata"
    /\ error[1] = "ParseError"
    /\ before[1].zip
    /\ Len(before[1].entries) >= 2

InfuseStep == pc[1] = "unzipped" /\ pc'[1] # "unzipped"

(* C14: a call of _infuseMetadata, returning or raising, changes no file   *)
(* of the scratch directory other than docProps/core.xml and does not      *)
(* change the package file; when it returns, core.xml is the rewritten     *)
(* document, and when it raises, core.xml is unchanged too.                *)
C14_OnlyCoreXmlTouched ==
    [][ InfuseStep =>
          /\ files' = files
          /\ \A n \in Paths \ {CorePath} : scratch'[n] = scratch[n]
          /\ pc'[1] = "raised" => scratch' = scratch
          /\ pc'[1] = "infused" =>
                 scratch'[CorePath] =
                     File(InfuseXml(scratch[CorePath].data, args[1].commit_hash,
                                    args[1].release_tag).xml) ]_vars

C14_Witness ==
    /\ pc[1] = "infused"
    /\ scratch[WorkbookPath] = File(Bytes("W1"))
    /\ scratch[DirPath] = Dir
    /\ scratch[CorePath].t = "file"
    /\ scratch[CorePath].data # CoreNew
    /\ scratch[CorePath].data # CoreOld

(* C15: _customUnzip leaves the package file as it was, returns one       *)
(* record per archive entry in archive order, and after it returned every *)
(* record has a file of its own in the scratch directory at the record's   *)
(* path, holding the content of that record's member.                      *)
C15_OneFilePerRecord ==
    pc[1] = "unzipped" =>
        /\ Package(1) = before[1]
        /\ infos[1] = InfosOf(before[1])
        /\ \A i \in 1..Len(infos[1]) :
              /\ scratch[infos[1][i].filename] = File(before[1].entries[i].data)
              /\ \A j \in 1..Len(infos[1]) :
                     infos[1][j].filename = infos[1][i].filename => j = i

Written(p) == files'[args[p].input_file]

(* C17: _customZip writes the records in their order, one entry per        *)
(* record, each entry with the filename, compression method and timestamp  *)
(* of its record and with the content of the file at that filename in the  *)
(* scratch directory: all records when it returns, the records before the  *)
(* one whose file it could not read when it raises.                        *)
C17_OneEntryPerRecord ==
    [][ ZipStep =>
          /\ Written(1).zip
          /\ Len(Written(1).entries) <= Len(infos[1])
          /\ pc'[1] = "returned" => Len(Written(1).entries) = Len(infos[1])
          /\ pc'[1] = "raised" =>
                 /\ Len(Written(1).entries) < Len(infos[1])
                 /\ scratch[infos[1][Len(Written(1).entries) + 1].filename].t # "file"
          /\ \A i \in 1..Len(Written(1).entries) :
                 /\ ZipInfo(Written(1).entries[i]) = infos[1][i]
                 /\ scratch[infos[1][i].filename].t = "file"
                 /\ Written(1).entries[i].data = scratch[infos[1][i].filename].data
        ]_vars

C17_Witness ==
    /\ Returned(1)
    /\ Len(Package(1).entries) = 3
    /\ Package(1).entries[1].filename = WorkbookPath
    /\ Package(1).entries[1].compress_type = "deflated"
    /\ Package(1).entries[2].filename = CorePath
    /\ Package(1).entries[2].data # before[1].entries[2].data
    /\ Package(1).entries[3].compress_type = "stored"

(***************************************************************************)
(* SpecConc: two invocations of assignMetadataToExcel in one working       *)
(* directory, each on its own package with its own commit and tag; their   *)
(* statements interleave freely, and both use the directory tmp_unzipped.  *)
(***************************************************************************)
ConcPackages ==
    {Archive(<<Entry(CorePath, "deflated", "2024", CoreNew),
               Entry(WorkbookPath, "deflated", "2024", Bytes("W1"))>>),
     Archive(<<Entry(WorkbookPath, "stored", "1980", Bytes("W2")),
               Entry(CorePath, "deflated", "2024", CoreOld)>>),
     Archive(<<Entry(CorePath, "deflated", "2024", CoreNew),
               Entry(DirPath, "stored", "1980", <<>>)>>),
     Archive(<<Entry(WorkbookPath, "deflated", "2024", Bytes("W1"))>>),
     NotAZip("garbage")}

ConcArgs(p) ==
    IF p = 1
    THEN [input_file |-> "book.xlsx", commit_hash |-> Str(<<"abc123">>),
          release_tag |-> Str(<<"v1.0.0">>)]
    ELSE [input_file |-> "other.xlsx", commit_hash |-> Str(<<"def456">>),
          release_tag |-> Str(<<"v2.0.0">>)]

InitConc ==
    /\ files \in [Pkgs -> ConcPackages]
    /\ scratch = EmptyTree
    /\ pc = [p \in Procs |-> "idle"]
    /\ args = [p \in Procs |-> NoArgs]
    /\ infos = [p \in Procs |-> <<>>]
    /\ error = [p \in Procs |-> ""]
    /\ calls = [p \in Procs |-> <<>>]
    /\ before = [p \in Procs |-> NotAZip("")]
    /\ ncalls = 0
    /\ infusions = 0
    /\ core0 = <<>>
    /\ overlap = FALSE
    /\ env = NoEnv
    /\ exit_status = StillRunning
    /\ stdout = <<>>
    /\ book = NoBook
    /\ result = NotCalled
    /\ ExtIdle

NextConc ==
    \E p \in Procs :
        \/ Call(p, ConcArgs(p).input_file, ConcArgs(p).commit_hash,
                ConcArgs(p).release_tag)
        \/ Unzip(p)
        \/ Infuse(p)
        \/ Zip(p)
        \/ Resume(p)

SpecConc == InitConc /\ [][NextConc]_vars

(* The package of invocation p holds nothing but members of the package as *)
(* it was when p was called, its core.xml being one of them infused with   *)
(* p's own commit and tag.                                                 *)
OwnOutput(p) ==
    \/ Package(p) = before[p]
    \/ /\ Package(p).zip
       /\ \A i \in 1..Len(Package(p).entries) :
             LET e == Package(p).entries[i] IN
             \E j \in 1..Len(before[p].entries) :
                 LET m == before[p].entries[j] IN
                 /\ ZipInfo(m) = ZipInfo(e)
                 /\ IF e.filename = CorePath
                    THEN e.data = InfuseXml(m.data, args[p].commit_hash,
                                            args[p].release_tag).xml
                    ELSE e.data = m.data

Started(p) == calls[p] # <<>>

(* C16: as long as no invocation started while another one was running,   *)
(* the package of every invocation holds only its own members and its own *)
(* metadata, and a returned invocation has written all of its members.     *)
C16_SequentialCallsKeepOwnContent ==
    ~overlap =>
        \A p \in Procs :
            Started(p) =>
                /\ OwnOutput(p)
                /\ Returned(p) =>
                       Len(Package(p).entries) = Len(before[p].entries)

(* C16, the race: two overlapping invocations, one of which returned after *)
(* writing the other's content and metadata to its package, while the      *)
(* other failed because the directory was gone.                            *)
C16_Witness ==
    /\ overlap
    /\ Returned(1)
    /\ ~OwnOutput(1)
    /\ CountMember(Package(1).entries, WorkbookPath, Bytes("W2")) = 1
    /\ Raised(2)
    /\ error[2] = "FileNotFoundError"
    /\ LastCall(2) = "_customZip"

(***************************************************************************)
(* SpecMain: one run of the script, main() of lines 89-94 under the guard  *)
(* of lines 97-98.  os.environ.get gives None or the default for a         *)
(* variable that is not set; an exception that leaves main ends the        *)
(* process with status 1, a return with status 0.                          *)
(***************************************************************************)
Unknown == Str(<<"unknown">>)

Getenv(e, name, default) == IF e[name] = None THEN default ELSE e[name]

PathOf(value) == IF value = None THEN NonePath ELSE value.s[1]

MetadataUpdated(release_tag, commit_hash) ==
    [line |-> "Metadata updated", version |-> release_tag, tags |-> commit_hash]

EnvChoices ==
    {e \in [EnvNames -> {None, Str(<<"book.xlsx">>), Str(<<"other.xlsx">>),
                         Str(<<MissingPath>>), Str(<<"abc123">>),
                         Str(<<"v1.0.0">>), Str(<<>>)}] :
        /\ e["EXCEL_FILE"] \in {None, Str(<<"book.xlsx">>), Str(<<"other.xlsx">>),
                                Str(<<MissingPath>>)}
        /\ e["COMMIT_HASH"] \in {None, Str(<<"abc123">>)}
        /\ e["RELEASE_TAG"] \in {None, Str(<<"v1.0.0">>), Str(<<>>)}}

MainStart ==
    /\ ~exit_status.exited
    /\ Call(1, PathOf(Getenv(env, "EXCEL_FILE", None)),
               Getenv(env, "COMMIT_HASH", Unknown),
               Getenv(env, "RELEASE_TAG", Unknown))

(* Variant of the end of main that reports success whatever happened. *)
MainExitSwallowing ==
    /\ pc[1] \in {"returned", "raised"}
    /\ ~exit_status.exited
    /\ stdout' = Append(stdout, MetadataUpdated(args[1].release_tag,
                                                args[1].commit_hash))
    /\ exit_status' = Exited(0)
    /\ UNCHANGED <<files, scratch, pc, args, infos, error, calls, before, ncalls,
                   infusions, core0, overlap, env, refVars, extVars>>

MainExit ==
    /\ pc[1] \in {"returned", "raised"}
    /\ ~exit_status.exited
    /\ IF pc[1] = "returned"
       THEN /\ stdout' = Append(stdout, MetadataUpdated(args[1].release_tag,
                                                        args[1].commit_hash))
            /\ exit_status' = Exited(0)
       ELSE /\ stdout' = stdout
            /\ exit_status' = Exited(1)
    /\ UNCHANGED <<files, scratch, pc, args, infos, error, calls, before, ncalls,
                   infusions, core0, overlap, env, refVars, extVars>>

InitMain ==
    /\ files \in [Pkgs -> Packages]
    /\ files["other.xlsx"] = NotAZip("garbage")
    /\ scratch = EmptyTree
    /\ pc = [p \in Procs |-> "idle"]
    /\ args = [p \in Procs |-> NoArgs]
    /\ infos = [p \in Procs |-> <<>>]
    /\ error = [p \in Procs |-> ""]
    /\ calls = [p \in Procs |-> <<>>]
    /\ before = [p \in Procs |-> NotAZip("")]
    /\ ncalls = 0
    /\ infusions = 0
    /\ core0 = <<>>
    /\ overlap = FALSE
    /\ env \in EnvChoices
    /\ exit_status = StillRunning
    /\ stdout = <<>>
    /\ book = NoBook
    /\ result = NotCalled
    /\ ExtIdle

NextMain ==
    \/ MainStart
    \/ Unzip(1)
    \/ Infuse(1)
    \/ Zip(1)
    \/ MainExit

SpecMain == InitMain /\ [][NextMain]_vars

AllStagesSucceeded ==
    /\ Len(calls[1]) = 3
    /\ calls[1][1].op = "_customUnzip"
    /\ calls[1][2].op = "_infuseMetadata"
    /\ calls[1][3].op = "_customZip"
    /\ error[1] = ""

ExpectedArgs ==
    [input_file |-> IF env["EXCEL_FILE"] = None THEN NonePath
                    ELSE env["EXCEL_FILE"].s[1],
     commit_hash |-> IF env["COMMIT_HASH"] = None THEN Unknown
                     ELSE env["COMMIT_HASH"],
     release_tag |-> IF env["RELEASE_TAG"] = None THEN Unknown
                     ELSE env["RELEASE_TAG"]]

(* C18: main runs assignMetadataToExcel once, on the values of EXCEL_FILE, *)
(* COMMIT_HASH and RELEASE_TAG, the last two being "unknown" when not set; *)
(* the process exits with status 0 exactly when unpack, infuse and repack  *)
(* all returned, and only then has it printed the "Metadata updated" line, *)
(* with the tag and the commit; every failure of a stage, an unset         *)
(* EXCEL_FILE included, ends it with status 1 and nothing printed.         *)
C18_ExitStatusReportsSuccess ==
    /\ ncalls <= 1
    /\ ncalls = 1 => args[1] = ExpectedArgs
    /\ ~exit_status.exited => stdout = <<>>
    /\ exit_status.exited =>
          /\ ncalls = 1
          /\ exit_status.code = 0 <=> AllStagesSucceeded
          /\ exit_status.code = 0 =>
                 stdout = <<MetadataUpdated(ExpectedArgs.release_tag,
                                            ExpectedArgs.commit_hash)>>
          /\ exit_status.code # 0 => stdout = <<>>
          /\ error[1] # "" => exit_status.code # 0
          /\ env["EXCEL_FILE"] = None =>
                 /\ exit_status.code # 0
                 /\ error[1] = "AttributeError"

C18_Witness ==
    /\ exit_status = Exited(0)
    /\ env["COMMIT_HASH"] = None
    /\ env["RELEASE_TAG"] = Str(<<>>)
    /\ stdout = <<MetadataUpdated(Str(<<>>), Unknown)>>
    /\ Len(Package(1).entries) >= 2

(***************************************************************************)
(* check_excel_refs.py.  A string is the sequence of its characters, so    *)
(* that "#REF!" in txt is a search for a run of five characters.  A Python *)
(* value is None, a str, an int (with the text str() gives it) or an       *)
(* ArrayFormula (with its attribute text).                                 *)
(***************************************************************************)
MaxCells == 2

RefToken == <<"#", "R", "E", "F", "!">>

Contains(txt, token) ==
    \E i \in 1..(Len(txt) - Len(token) + 1) :
        SubSeq(txt, i, i + Len(token) - 1) = token

PyNone == [kind |-> "None", text |-> <<>>]
PyStr(txt) == [kind |-> "str", text |-> txt]
PyInt(txt) == [kind |-> "int", text |-> txt]
ArrayFormula(txt) == [kind |-> "ArrayFormula", text |-> txt]

(* _safe_str, lines 66-70. *)
SafeStr(val) == IF val.kind = "None" THEN <<>> ELSE val.text

(* bool(cell_value): None, "" and 0 are false. *)
Truthy(val) ==
    CASE val.kind = "None" -> FALSE
      [] val.kind = "str" -> val.text # <<>>
      [] val.kind = "int" -> val.text # <<"0">>
      [] OTHER -> TRUE

Cell(coordinate, data_type, value) ==
    [coordinate |-> coordinate, data_type |-> data_type, value |-> value]

(* Variant of the test of a cell that looks at str values only. *)
HasRefErrorValueOnly(cell) ==
    /\ Truthy(cell.value)
    /\ cell.value.kind = "str"
    /\ Contains(cell.value.text, RefToken)

(* The test of one cell, lines 171-187. *)
HasRefError(cell) ==
    \/ /\ Truthy(cell.value)
       /\ cell.value.kind = "str"
       /\ Contains(cell.value.text, RefToken)
    \/ /\ cell.data_type = "f"
       /\ LET raw == IF cell.value.kind = "ArrayFormula"
                     THEN PyStr(cell.value.text)
                     ELSE cell.value IN
          Contains(SafeStr(raw), RefToken)

(* formula_display, lines 189-194. *)
FormulaDisplay(cell) ==
    IF cell.value.kind = "ArrayFormula"
    THEN SafeStr(PyStr(cell.value.text))
    ELSE SafeStr(cell.value)

Finding(sheet, cell, formula) ==
    [sheet |-> sheet, cell |-> cell, formula |-> formula]

(* The loop over the cells of one sheet, lines 168-202. *)
RECURSIVE ScanCells(_, _)
ScanCells(sheet_name, cells) ==
    IF cells = <<>> THEN <<>>
    ELSE LET cell == Head(cells) IN
         (IF HasRefError(cell)
          THEN <<Finding(sheet_name, cell.coordinate, FormulaDisplay(cell))>>
          ELSE <<>>) \o ScanCells(sheet_name, Tail(cells))

(***************************************************************************)
(* _scan_data_validations_for_ref, lines 95-117: for every validation of   *)
(* the sheet, formula1, formula2 and sqref in that order.                  *)
(***************************************************************************)
DataValidation(formula1, formula2, sqref) ==
    [formula1 |-> formula1, formula2 |-> formula2, sqref |-> sqref]

DvAttrs == <<"formula1", "formula2", "sqref">>

ScanOneValidation(title, dv) ==
    LET hit(attr) == IF Contains(SafeStr(dv[attr]), RefToken)
                     THEN <<Finding(title, attr, SafeStr(dv[attr]))>>
                     ELSE <<>> IN
    hit(DvAttrs[1]) \o hit(DvAttrs[2]) \o hit(DvAttrs[3])

RECURSIVE ScanDataValidationsForRef(_, _)
ScanDataValidationsForRef(title, dv_list) ==
    IF dv_list = <<>> THEN <<>>
    ELSE ScanOneValidation(title, Head(dv_list))
             \o ScanDataValidationsForRef(title, Tail(dv_list))

(***************************************************************************)
(* _scan_defined_names_for_ref, lines 73-92.                               *)
(***************************************************************************)
DefinedName(name, attr_text) == [name |-> name, attr_text |-> attr_text]

RECURSIVE ScanDefinedNamesForRef(_)
ScanDefinedNamesForRef(defined_names) ==
    IF defined_names = <<>> THEN <<>>
    ELSE LET dn == Head(defined_names)
             txt == SafeStr(dn.attr_text) IN
         (IF Contains(txt, RefToken)
          THEN <<Finding("<defined-name>", dn.name, txt)>>
          ELSE <<>>) \o ScanDefinedNamesForRef(Tail(defined_names))

(***************************************************************************)
(* The workbook file.  It is a ZIP package of parts; what a sheet holds is *)
(* text of the part of that sheet: formulas, error values, numbers and     *)
(* validations always, string values either there (inline strings) or in   *)
(* the part xl/sharedStrings.xml; defined names are text of                *)
(* xl/workbook.xml.  load_workbook builds the sheets from these parts.     *)
(***************************************************************************)
Sheet(title, worksheet, cells, dataValidation) ==
    [title |-> title, worksheet |-> worksheet, cells |-> cells,
     dataValidation |-> dataValidation]

Book(sharedStrings, sheets, defined_names) ==
    [exists |-> TRUE, valid |-> TRUE, sharedStrings |-> sharedStrings,
     sheets |-> sheets,
     defined_names |-> defined_names]

(* The name of a part, with what startswith("xl/") and endswith(".xml")    *)
(* look at.                                                                *)
PartName(dir, ext, name) == [dir |-> dir, ext |-> ext, name |-> name]
Part(name, texts) == [name |-> name, texts |-> texts]

SheetFiles ==
    <<"xl/worksheets/sheet1.xml", "xl/worksheets/sheet2.xml",
      "xl/worksheets/sheet3.xml">>

IsSharedString(cell) == cell.data_type = "s"

(* Texts of the cells kept in the place asked for: the shared string table *)
(* (shared = TRUE) or the part of the sheet (shared = FALSE).              *)
RECURSIVE CellTexts(_, _, _)
CellTexts(cells, sharedStrings, shared) ==
    IF cells = <<>> THEN <<>>
    ELSE LET cell == Head(cells)
             inTable == sharedStrings /\ IsSharedString(cell) IN
         (IF shared = inTable /\ cell.value.kind # "None"
          THEN <<cell.value.text>> ELSE <<>>)
             \o CellTexts(Tail(cells), sharedStrings, shared)

RECURSIVE ValidationTexts(_)
ValidationTexts(dv_list) ==
    IF dv_list = <<>> THEN <<>>
    ELSE LET dv == Head(dv_list) IN
         <<SafeStr(dv.formula1), SafeStr(dv.formula2), SafeStr(dv.sqref)>>
             \o ValidationTexts(Tail(dv_list))

SheetPart(file, i) ==
    LET sheet == file.sheets[i] IN
    Part(PartName("xl", "xml", SheetFiles[i]),
         IF sheet.worksheet
         THEN CellTexts(sheet.cells, file.sharedStrings, FALSE)
                  \o ValidationTexts(sheet.dataValidation)
         ELSE <<>>)

RECURSIVE SharedStrings(_, _)
SharedStrings(file, i) ==
    IF i > Len(file.sheets) THEN <<>>
    ELSE CellTexts(file.sheets[i].cells, file.sharedStrings, TRUE)
             \o SharedStrings(file, i + 1)

Parts(file) ==
    <<Part(PartName("", "xml", "[Content_Types].xml"), <<>>),
      Part(PartName("docProps", "xml", "docProps/core.xml"), <<>>),
      Part(PartName("xl", "xml", "xl/workbook.xml"),
           [i \in 1..Len(file.defined_names) |->
               SafeStr(file.defined_names[i].attr_text)])>>
    \o [i \in 1..Len(file.sheets) |-> SheetPart(file, i)]
    \o (IF file.sharedStrings
        THEN <<Part(PartName("xl", "xml", "xl/sharedStrings.xml"),
                    SharedStrings(file, 1))>>
        ELSE <<>>)

(***************************************************************************)
(* _scan_zip_for_ref_tokens, lines 120-149: every part whose name starts   *)
(* with "xl/" and ends with ".xml" and whose bytes contain "#REF!".        *)
(***************************************************************************)
FoundInXml == <<"#REF! found in XML part">>

PartHasToken(part) ==
    \E i \in 1..Len(part.texts) : Contains(part.texts[i], RefToken)

RECURSIVE ScanParts(_)
ScanParts(parts) ==
    IF parts = <<>> THEN <<>>
    ELSE LET part == Head(parts) IN
         (IF part.name.dir = "xl" /\ part.name.ext = "xml" /\ PartHasToken(part)
          THEN <<Finding("<xml>", part.name.name, FoundInXml)>>
          ELSE <<>>) \o ScanParts(Tail(parts))

ScanZipForRefTokens(file) == ScanParts(Parts(file))

(***************************************************************************)
(* What can go wrong after the workbook was loaded: an exception raised    *)
(* in the try block of one of the three scans, before its first finding    *)
(* (the validations of a sheet cannot be read, the defined names cannot be *)
(* iterated, the package cannot be opened a second time).  The scan then   *)
(* returns its empty list (lines 89-92, 115-117, 145-149).                 *)
(***************************************************************************)
Faults == {"data_validations", "defined_names", "zip"}

(* A file that is there and that load_workbook refuses. *)
InvalidBook == [exists |-> TRUE, valid |-> FALSE, sharedStrings |-> FALSE,
                sheets |-> <<>>, defined_names |-> <<>>]

(* load_workbook raises FileNotFoundError, InvalidFileException, BadZipFile *)
LoadWorkbookRaises(file) == ~file.exists \/ ~file.valid

(***************************************************************************)
(* check_ref_errors, lines 152-221.  A file load_workbook cannot read      *)
(* gives None; otherwise the findings of the cells and validations of each *)
(* worksheet in workbook order, then of the defined names, then of the     *)
(* parts of the package.                                                   *)
(***************************************************************************)
ReturnedNone == [done |-> TRUE, none |-> TRUE, list |-> <<>>]
ReturnedList(list) == [done |-> TRUE, none |-> FALSE, list |-> list]

RECURSIVE ScanSheets(_, _)
ScanSheets(sheets, faults) ==
    IF sheets = <<>> THEN <<>>
    ELSE LET sheet == Head(sheets) IN
         (IF sheet.worksheet
          THEN ScanCells(sheet.title, sheet.cells)
                   \o (IF "data_validations" \in faults THEN <<>>
                       ELSE ScanDataValidationsForRef(sheet.title,
                                                      sheet.dataValidation))
          ELSE <<>>) \o ScanSheets(Tail(sheets), faults)

(* A check_ref_errors whose scans let their exceptions through to the      *)
(* handler of lines 219-221.                                               *)
CheckRefErrorsPropagating(file, faults) ==
    IF LoadWorkbookRaises(file) \/ faults # {} THEN ReturnedNone
    ELSE ReturnedList(ScanSheets(file.sheets, faults)
                          \o ScanDefinedNamesForRef(file.defined_names)
                          \o ScanZipForRefTokens(file))

CheckRefErrors(file, faults) ==
    IF LoadWorkbookRaises(file) THEN ReturnedNone
    ELSE ReturnedList(ScanSheets(file.sheets, faults)
                          \o (IF "defined_names" \in faults THEN <<>>
                              ELSE ScanDefinedNamesForRef(file.defined_names))
                          \o (IF "zip" \in faults THEN <<>>
                              ELSE ScanZipForRefTokens(file)))

(***************************************************************************)
(* SpecRefs: check_ref_errors called once on a file.  The first sheet      *)
(* holds up to MaxCells cells in its first row, with or without a          *)
(* validation; a second sheet, when there is one, is one of a few fixed    *)
(* sheets.                                                                 *)
(***************************************************************************)
Coordinates == <<"A1", "B1", "C1", "D1">>

Values ==
    {[data_type |-> "e", value |-> PyStr(RefToken)],
     [data_type |-> "s", value |-> PyStr(<<"#", "R", "E", "F">>)],
     [data_type |-> "s", value |-> PyStr(<<"R", "E", "F", "!">>)],
     [data_type |-> "s", value |-> PyStr(<<"#", "r", "e", "f", "!">>)],
     [data_type |-> "s", value |-> PyStr(<<"x", "#", "R", "E", "F", "!", "y">>)],
     [data_type |-> "s", value |-> PyStr(<<>>)],
     [data_type |-> "n", value |-> PyNone],
     [data_type |-> "n", value |-> PyInt(<<"4", "2">>)],
     [data_type |-> "f", value |-> PyStr(<<"=", "S", "(", "#", "R", "E", "F", "!", ")">>)],
     [data_type |-> "f", value |-> PyStr(<<"=", "A", "1">>)],
     [data_type |-> "f", value |-> ArrayFormula(<<"=", "S", "(", "#", "R", "E", "F", "!", ")">>)],
     [data_type |-> "f", value |-> ArrayFormula(<<"=", "A", "1">>)]}

Row(vals) ==
    [i \in 1..Len(vals) |-> Cell(Coordinates[i], vals[i].data_type, vals[i].value)]

BrokenValidation ==
    DataValidation(PyStr(RefToken), PyNone, PyStr(<<"A", "1">>))

BrokenFormula == [data_type |-> "f",
                  value |-> PyStr(<<"=", "S", "(", "#", "R", "E", "F", "!", ")">>)]
CleanText == [data_type |-> "s", value |-> PyStr(<<"o", "k">>)]

FirstSheets ==
    {Sheet("Sheet1", TRUE, Row(vals), dvs) :
        vals \in SeqsUpTo(Values, MaxCells), dvs \in {<<>>, <<BrokenValidation>>}}

SecondSheets ==
    {<<>>,
     <<Sheet("Sheet2", TRUE, Row(<<CleanText>>), <<>>)>>,
     <<Sheet("Sheet2", TRUE, Row(<<BrokenFormula>>), <<>>)>>,
     <<Sheet("Sheet2", TRUE, Row(<<CleanText>>), <<BrokenValidation>>)>>,
     <<Sheet("Sheet2", FALSE, <<>>, <<>>)>>}

Workbooks ==
    {Book(shared, <<first>> \o second, names) :
        shared \in BOOLEAN, first \in FirstSheets, second \in SecondSheets,
        names \in {<<>>, <<DefinedName("Range1", PyStr(RefToken))>>}}

CheckRefErrorsCall ==
    /\ ~result.done
    /\ \E faults \in SUBSET Faults : result' = CheckRefErrors(book, faults)
    /\ UNCHANGED <<files, scratch, pc, args, infos, error, calls, before, ncalls,
                   infusions, core0, overlap, mainVars, book, extVars>>

InitRefs ==
    /\ files = [f \in Pkgs |-> NotAZip("garbage")]
    /\ scratch = EmptyTree
    /\ pc = [p \in Procs |-> "idle"]
    /\ args = [p \in Procs |-> NoArgs]
    /\ infos = [p \in Procs |-> <<>>]
    /\ error = [p \in Procs |-> ""]
    /\ calls = [p \in Procs |-> <<>>]
    /\ before = [p \in Procs |-> NotAZip("")]
    /\ ncalls = 0
    /\ infusions = 0
    /\ core0 = <<>>
    /\ overlap = FALSE
    /\ env = NoEnv
    /\ exit_status = StillRunning
    /\ stdout = <<>>
    /\ book \in Workbooks \cup {NoBook, InvalidBook}
    /\ result = NotCalled
    /\ ExtIdle

NextRefs == CheckRefErrorsCall

SpecRefs == InitRefs /\ [][NextRefs]_vars

(***************************************************************************)
(* Vocabulary of the properties of check_ref_errors.                       *)
(***************************************************************************)
GaveList == result.done /\ ~result.none

Reported(title, coordinate) ==
    \E i \in 1..Len(result.list) :
        result.list[i].sheet = title /\ result.list[i].cell = coordinate

(* The string value or the formula text of a cell. *)
CellText(cell) ==
    IF cell.value.kind \in {"str", "ArrayFormula"} THEN cell.value.text ELSE <<>>

HoldsRef(cell) == Contains(CellText(cell), RefToken)

Worksheets == {i \in 1..Len(book.sheets) : book.sheets[i].worksheet}

CellsOf(i) == 1..Len(book.sheets[i].cells)

EntriesOf(title) ==
    {i \in 1..Len(result.list) : result.list[i].sheet = title}

CellsReportedIffRef ==
    \A i \in Worksheets : \A j \in CellsOf(i) :
        LET cell == book.sheets[i].cells[j] IN
        /\ Reported(book.sheets[i].title, cell.coordinate) <=> HoldsRef(cell)
        /\ HoldsRef(cell) =>
               \E k \in EntriesOf(book.sheets[i].title) :
                   result.list[k] = Finding(book.sheets[i].title, cell.coordinate,
                                            CellText(cell))

BrokenAttr(dv, attr) == Contains(SafeStr(dv[attr]), RefToken)

(* C19, as stated: a cell of a worksheet is reported, under its sheet name *)
(* and coordinate, if and only if its string value or its formula text     *)
(* contains "#REF!", and a sheet none of whose cells does has no entry     *)
(* under its name.                                                         *)
C19_CleanSheetsHaveNoEntry ==
    GaveList =>
        /\ CellsReportedIffRef
        /\ \A i \in 1..Len(book.sheets) :
              (\A j \in CellsOf(i) : ~HoldsRef(book.sheets[i].cells[j]))
                  => EntriesOf(book.sheets[i].title) = {}

(* C19, amended: a cell of a worksheet is reported, under its sheet name   *)
(* and coordinate, if and only if its string value or its formula text     *)
(* contains "#REF!"; every other entry under the name of a sheet is one of *)
(* a data validation of that sheet, carrying the name of the attribute      *)
(* (formula1, formula2 or sqref) that contains "#REF!" in place of a       *)
(* coordinate; a sheet with no such cell and no such validation has no     *)
(* entry under its name.                                                   *)
C19_CellsReportedIffRef ==
    GaveList =>
        /\ CellsReportedIffRef
        /\ \A i \in 1..Len(book.sheets) :
              LET sheet == book.sheets[i] IN
              \A k \in EntriesOf(sheet.title) :
                  LET e == result.list[k] IN
                  /\ sheet.worksheet
                  /\ \/ \E j \in CellsOf(i) :
                            /\ e.cell = sheet.cells[j].coordinate
                            /\ HoldsRef(sheet.cells[j])
                     \/ \E d \in 1..Len(sheet.dataValidation) :
                            \E a \in 1..Len(DvAttrs) :
                                /\ e.cell = DvAttrs[a]
                                /\ BrokenAttr(sheet.dataValidation[d], DvAttrs[a])

C19_Witness ==
    /\ GaveList
    /\ Len(book.sheets) = 2
    /\ book.sheets[2].worksheet
    /\ EntriesOf("Sheet2") = {}
    /\ Len(book.sheets[1].cells) = 2
    /\ book.sheets[1].cells[1].value = PyStr(<<"#", "r", "e", "f", "!">>)
    /\ book.sheets[1].cells[2].value.kind = "ArrayFormula"
    /\ ~Reported("Sheet1", "A1")
    /\ Reported("Sheet1", "B1")

RefCells ==
    {c \in Worksheets \X (1..(MaxCells + 1)) :
        c[2] \in CellsOf(c[1]) /\ HoldsRef(book.sheets[c[1]].cells[c[2]])}

OnlyInCells ==
    /\ book.valid
    /\ \A i \in 1..Len(book.sheets) :
          \A d \in 1..Len(book.sheets[i].dataValidation) :
              \A a \in 1..Len(DvAttrs) :
                  ~BrokenAttr(book.sheets[i].dataValidation[d], DvAttrs[a])
    /\ \A n \in 1..Len(book.defined_names) :
          ~Contains(SafeStr(book.defined_names[n].attr_text), RefToken)

(* C20: for a workbook in which "#REF!" occurs in worksheet cells only,    *)
(* the list check_ref_errors returns has as many entries as there are      *)
(* cells containing "#REF!".                                               *)
C20_OneEntryPerRefCell ==
    (result.done /\ OnlyInCells) =>
        /\ ~result.none
        /\ Len(result.list) = Cardinality(RefCells)

(***************************************************************************)
(* Vocabulary of C21.                                                      *)
(***************************************************************************)
Loadable == book.exists /\ book.valid

(* What the call gives when no scan fails. *)
Undisturbed == CheckRefErrors(book, {})

(* C21: check_ref_errors always returns: None for a path that does not     *)
(* exist and for a file load_workbook cannot read, a list for every        *)
(* workbook it can read, whether or not the scans of the validations, of   *)
(* the defined names and of the raw XML failed; the list is empty when     *)
(* nothing was found.                                                      *)
C21_NoneIffNotLoadable ==
    result.done =>
        /\ result.none <=> ~Loadable
        /\ (GaveList /\ Undisturbed.list = <<>>) => result.list = <<>>

(* A readable workbook with findings, a scan of which failed: the call     *)
(* gave a list, shorter than the one of an undisturbed call.               *)
C21_Witness ==
    /\ Loadable
    /\ GaveList
    /\ Len(result.list) < Len(Undisturbed.list)

(***************************************************************************)
(* export_sheets_with_formulas, check_excel_refs.py lines 18-63.  A CSV    *)
(* file is the sequence of its lines, a line a sequence of characters; a   *)
(* file of zero length has no line.                                        *)
(***************************************************************************)
(* get_formula_or_value, lines 27-43 *)
GetFormulaOrValue(c) ==
    IF c.data_type = "f"
    THEN IF c.value.kind = "ArrayFormula"
         THEN (IF c.value.text # <<>> THEN c.value.text ELSE <<>>)
         ELSE (IF c.value.kind # "None" THEN c.value.text ELSE <<>>)
    ELSE IF c.value.kind = "None" THEN <<>>
    ELSE c.value.text

(* csv.writer, default dialect: a field holding the delimiter or the quote *)
(* character is quoted, and so is the empty field of a one-field row.      *)
Quoted(field) == <<"\"">> \o field \o <<"\"">>

CsvField(field) ==
    IF \E i \in 1..Len(field) : field[i] \in {",", "\""}
    THEN Quoted(field) ELSE field

RECURSIVE JoinFields(_)
JoinFields(fields) ==
    IF fields = <<>> THEN <<>>
    ELSE IF Len(fields) = 1 THEN CsvField(fields[1])
    ELSE CsvField(Head(fields)) \o <<",">> \o JoinFields(Tail(fields))

CsvLine(fields) ==
    IF fields = << <<>> >> THEN Quoted(<<>>) ELSE JoinFields(fields)

(* lines 52-55: one row of the sheet per line *)
SheetRows(sheet) == IF sheet.cells = <<>> THEN <<>> ELSE <<sheet.cells>>

WriteRows(sheet) ==
    [r \in 1..Len(SheetRows(sheet)) |->
        CsvLine([k \in 1..Len(SheetRows(sheet)[r]) |->
                     GetFormulaOrValue(SheetRows(sheet)[r][k])])]

(* lines 58-63: no piece of line.split(",") is left after strip(), that    *)
(* is, the line holds nothing but commas and white space.                  *)
BlankLine(line) == \A i \in 1..Len(line) : line[i] \in {",", " "}

AfterTruncate(content) ==
    IF \A r \in 1..Len(content) : BlankLine(content[r]) THEN <<>> ELSE content

CsvPath(title) == [stem |-> title, suffix |-> ".csv"]

CsvFile(name, content) == [name |-> name, content |-> content]

(* open(csv_path, "w") in a directory: the file of that name is replaced *)
WriteFile(dir, name, content) ==
    {f \in dir : f.name # name} \cup {CsvFile(name, content)}

RECURSIVE ExportSheets(_, _)
ExportSheets(sheets, dir) ==
    IF sheets = <<>> THEN dir
    ELSE LET sheet == Head(sheets) IN
         ExportSheets(Tail(sheets),
                      IF sheet.worksheet
                      THEN WriteFile(dir, CsvPath(sheet.title),
                                     AfterTruncate(WriteRows(sheet)))
                      ELSE dir)

(* The directory after the call; load_workbook raising leaves it alone. *)
ExportSheetsWithFormulas(file, dir) ==
    IF LoadWorkbookRaises(file) THEN dir ELSE ExportSheets(file.sheets, dir)

(* delete_existing_exploded, lines 224-238: the files below exploded/ go *)
DeleteExistingExploded(dir) == {}

(***************************************************************************)
(* check_excel_refs.main, lines 241-317.  A path is its stem and suffix.   *)
(***************************************************************************)
PathValue(stem, suffix) == [some |-> TRUE, stem |-> stem, suffix |-> suffix]
EmptyValue == PathValue("", "")

(* bool(excel_file): None and "" are false *)
Given(v) == v.some /\ (v.stem # "" \/ v.suffix # "")

(* str.lower on the strings of the inputs *)
Lower(str) ==
    CASE str = ".XLSM" -> ".xlsm"
      [] str = "True" -> "true"
      [] OTHER -> str

supported_extensions == {".xlsx", ".xltm", ".xlsm", ".xltx", ".xlsb"}

(* The files of the working directory: they all hold the workbook `book'. *)
ExistingFiles ==
    {PathValue("book", ".xlsx"), PathValue("BOOK", ".XLSM"),
     PathValue("notes", ".txt")}

(* lines 245-249 with the command line taking precedence *)
ExcelFileArgvFirst(input) ==
    IF Len(input.argv) > 1 THEN input.argv[2] ELSE input.EXCEL_FILE

(* lines 245-249 *)
ExcelFile(input) ==
    IF ~Given(input.EXCEL_FILE) /\ Len(input.argv) > 1
    THEN input.argv[2] ELSE input.EXCEL_FILE

(* line 246 *)
ExportSheetsFlag(input) ==
    Lower(IF input.EXPORT_SHEETS.some THEN input.EXPORT_SHEETS.s ELSE "false")
        = "true"

(* sys.exit(code): SystemExit ends the run, unless sys.exit is the Mock of *)
(* tests/test_check_excel_refs.py lines 212 and 222, which returns.        *)
AfterExit(c, next) ==
    [c EXCEPT !.pc = IF cliInput.patched THEN next ELSE "exited"]

pipelineVars ==
    <<files, scratch, pc, args, infos, error, calls, before, ncalls, infusions,
      core0, overlap>>

(* lines 245-267 *)
CliResolve ==
    /\ cli.pc = "start"
    /\ LET excel_file == ExcelFile(cliInput)
           c == [cli EXCEPT !.excel_file = excel_file,
                            !.export_sheets = ExportSheetsFlag(cliInput)] IN
       IF \/ ~Given(excel_file)
          \/ Lower(excel_file.suffix) \notin supported_extensions
          \/ excel_file \notin ExistingFiles
       THEN /\ exits' = Append(exits, 1)
            /\ cli' = [c EXCEPT !.pc = "exited"]
       ELSE /\ exits' = exits
            /\ cli' = [c EXCEPT !.pc = "check"]
    /\ UNCHANGED <<pipelineVars, mainVars, refVars, cliInput, csvdir, sopVars,
                   waitVars, e2eVars>>

(* line 283 *)
CliCheck ==
    /\ cli.pc = "check"
    /\ \E faults \in SUBSET Faults : result' = CheckRefErrors(book, faults)
    /\ cli' = [cli EXCEPT !.pc = "verdict", !.checked = TRUE]
    /\ UNCHANGED <<pipelineVars, mainVars, book, cliInput, exits, csvdir,
                   sopVars, waitVars, e2eVars>>

(* lines 288-300 *)
CliVerdict ==
    /\ cli.pc = "verdict"
    /\ IF result.none \/ Len(result.list) > 0
       THEN /\ exits' = Append(exits, 1)
            /\ cli' = AfterExit(cli, "export")
       ELSE /\ exits' = exits
            /\ cli' = [cli EXCEPT !.pc = "export"]
    /\ UNCHANGED <<pipelineVars, mainVars, refVars, cliInput, csvdir, sopVars,
                   waitVars, e2eVars>>

(* lines 303-314; an exception of the export is printed as a warning *)
CliExport ==
    /\ cli.pc = "export"
    /\ IF cli.export_sheets
       THEN /\ csvdir' = ExportSheetsWithFormulas(book,
                                                  DeleteExistingExploded(csvdir))
            /\ cli' = [cli EXCEPT !.pc = "final", !.exporting = TRUE]
       ELSE /\ csvdir' = csvdir
            /\ cli' = [cli EXCEPT !.pc = "final"]
    /\ UNCHANGED <<pipelineVars, mainVars, refVars, cliInput, exits, sopVars,
                   waitVars, e2eVars>>

(* lines 316-317 *)
CliFinal ==
    /\ cli.pc = "final"
    /\ exits' = Append(exits, 0)
    /\ cli' = AfterExit(cli, "returned")
    /\ UNCHANGED <<pipelineVars, mainVars, refVars, cliInput, csvdir, sopVars,
                   waitVars, e2eVars>>

(***************************************************************************)
(* SpecCli: one run of check_excel_refs.py.  The workbook has a first      *)
(* sheet of up to MaxCells cells and, possibly, a second sheet without     *)
(* cells or a chart sheet.                                                 *)
(***************************************************************************)
CliValues ==
    {[data_type |-> "n", value |-> PyNone],
     [data_type |-> "s", value |-> PyStr(<<" ">>)],
     [data_type |-> "n", value |-> PyInt(<<"4", "2">>)],
     [data_type |-> "f", value |-> PyStr(<<"=", "S", "(", "A", ",", "B", ")">>)],
     [data_type |-> "f", value |-> ArrayFormula(<<"=", "A", "1">>)],
     BrokenFormula}

CliBooks ==
    {Book(FALSE, <<Sheet("Sheet1", TRUE, Row(vals), <<>>)>> \o second, <<>>) :
        vals \in SeqsUpTo(CliValues, MaxCells),
        second \in {<<>>, <<Sheet("Sheet2", TRUE, <<>>, <<>>)>>,
                    <<Sheet("Chart1", FALSE, <<>>, <<>>)>>}}
    \cup {InvalidBook}

CliInputs ==
    {i \in [EXCEL_FILE : {NoValue, EmptyValue, PathValue("book", ".xlsx"),
                          PathValue("notes", ".txt")},
            EXPORT_SHEETS : {None, Str("True"), Str("1")},
            argv : {<<PathValue("check_excel_refs", ".py")>>,
                    <<PathValue("check_excel_refs", ".py"),
                      PathValue("BOOK", ".XLSM")>>,
                    <<PathValue("check_excel_refs", ".py"),
                      PathValue("missing", ".xlsx")>>},
            patched : BOOLEAN] :
        i.patched => /\ ExcelFile(i) \in ExistingFiles
                     /\ Lower(ExcelFile(i).suffix) \in supported_extensions
                     /\ ~i.EXCEL_FILE.some}

StaleFile == CsvFile(CsvPath("Old"), << <<"x">> >>)

PipelineIdle ==
    /\ files = [f \in Pkgs |-> NotAZip("garbage")]
    /\ scratch = EmptyTree
    /\ pc = [p \in Procs |-> "idle"]
    /\ args = [p \in Procs |-> NoArgs]
    /\ infos = [p \in Procs |-> <<>>]
    /\ error = [p \in Procs |-> ""]
    /\ calls = [p \in Procs |-> <<>>]
    /\ before = [p \in Procs |-> NotAZip("")]
    /\ ncalls = 0
    /\ infusions = 0
    /\ core0 = <<>>
    /\ overlap = FALSE
    /\ env = NoEnv
    /\ exit_status = StillRunning
    /\ stdout = <<>>

InitCli ==
    /\ PipelineIdle
    /\ book \in CliBooks
    /\ result = NotCalled
    /\ cliInput \in CliInputs
    /\ cli = [NoCli EXCEPT !.pc = "start"]
    /\ exits = <<>>
    /\ csvdir \in {{}, {StaleFile}}
    /\ SopIdle /\ WaitIdle /\ E2eIdle

NextCli == CliResolve \/ CliCheck \/ CliVerdict \/ CliExport \/ CliFinal

SpecCli == InitCli /\ [][NextCli]_vars

(***************************************************************************)
(* Vocabulary of the properties of check_excel_refs.main.                  *)
(***************************************************************************)
Resolved == cli.pc # "idle" /\ cli.pc # "start"

Ended == cli.pc \in {"exited", "returned"}

NoFileGiven == ~Given(cliInput.EXCEL_FILE) /\ Len(cliInput.argv) < 2

(* The file the run is about: EXCEL_FILE when it names one. *)
Chosen ==
    IF Given(cliInput.EXCEL_FILE) THEN cliInput.EXCEL_FILE
    ELSE cliInput.argv[2]

Rejected ==
    \/ NoFileGiven
    \/ Lower(Chosen.suffix) \notin supported_extensions
    \/ Chosen \notin ExistingFiles

NothingExported == ~cli.exporting /\ csvdir \subseteq {StaleFile}

(* C22: with no file given, with an extension other than .xlsx, .xltm,     *)
(* .xlsm, .xltx, .xlsb in any letter case, or with a file that does not    *)
(* exist, main exits with status 1 and has neither called check_ref_errors *)
(* nor exported; any other file is checked; the file is the one of         *)
(* EXCEL_FILE whenever EXCEL_FILE names one.                               *)
C22_RejectedBeforeCheck ==
    Resolved =>
        /\ Given(cliInput.EXCEL_FILE) => cli.excel_file = cliInput.EXCEL_FILE
        /\ Rejected => /\ cli.pc = "exited"
                       /\ exits = <<1>>
                       /\ ~cli.checked
                       /\ result = NotCalled
                       /\ NothingExported
        /\ ~Rejected => cli.excel_file = Chosen /\ (Ended => cli.checked)

(* EXCEL_FILE names a text file and the command line an existing workbook: *)
(* the run ended with status 1 without a check.                            *)
C22_Witness ==
    /\ cliInput.EXCEL_FILE = PathValue("notes", ".txt")
    /\ Len(cliInput.argv) = 2
    /\ cliInput.argv[2] = PathValue("BOOK", ".XLSM")
    /\ cli.pc = "exited"
    /\ exits = <<1>>
    /\ ~cli.checked

FoundErrors == result.done /\ ~result.none /\ result.list # <<>>

(* C23: for an existing file with a supported extension main calls         *)
(* sys.exit exactly once in a run, with status 0 if and only if            *)
(* check_ref_errors returned an empty list and with status 1 otherwise,    *)
(* and a run that found errors reaches neither the export step nor the     *)
(* final exit.                                                             *)
C23_OneExitPerRun ==
    /\ (Ended /\ cli.checked) =>
           /\ Len(exits) = 1
           /\ exits[1] = 0 <=> result = ReturnedList(<<>>)
           /\ exits[1] = 1 <=> result # ReturnedList(<<>>)
    /\ FoundErrors => cli.pc \notin {"export", "final", "returned"}
                          /\ ~cli.exporting

(* csv.reader on one line, as the tests read the files (test lines         *)
(* 131-133): the fields between the commas outside quotes.                 *)
RECURSIVE ReadLine(_, _, _)
ReadLine(line, field, quoted) ==
    IF line = <<>> THEN <<field>>
    ELSE IF Head(line) = "\"" THEN ReadLine(Tail(line), field, ~quoted)
    ELSE IF Head(line) = "," /\ ~quoted
         THEN <<field>> \o ReadLine(Tail(line), <<>>, FALSE)
    ELSE ReadLine(Tail(line), Append(field, Head(line)), quoted)

EmptyCell(c) == c.value.kind = "None"

ExportedBook == cli.exporting /\ Loadable

FilesNamed(name) == {f \in csvdir : f.name = name}

(* C24: after the export the output directory holds exactly one file per   *)
(* worksheet, named <title>.csv; the file of a worksheet all of whose      *)
(* cells are empty has length zero; in any other file a formula cell is    *)
(* its formula text and an empty cell an empty field.                      *)
C24_OneCsvPerWorksheet ==
    ExportedBook =>
        /\ {f.name : f \in csvdir}
               = {CsvPath(book.sheets[i].title) : i \in Worksheets}
        /\ \A i \in Worksheets :
               LET cells == book.sheets[i].cells IN
               \A f \in FilesNamed(CsvPath(book.sheets[i].title)) :
                   /\ Cardinality(FilesNamed(f.name)) = 1
                   /\ IF \A k \in 1..Len(cells) : EmptyCell(cells[k])
                      THEN f.content = <<>>
                      ELSE /\ Len(f.content) = 1
                           /\ ReadLine(f.content[1], <<>>, FALSE)
                                  = [k \in 1..Len(cells) |->
                                        IF EmptyCell(cells[k]) THEN <<>>
                                        ELSE cells[k].value.text]

(* C25: in a sequence of invocations made one after the other from one    *)
(* working directory, an invocation on a package without docProps/core.xml *)
(* does not get past the infusion, does not return, and leaves its package *)
(* as it was, whatever earlier invocations left in tmp_unzipped.           *)
C25_NoCoreNeverInfused ==
    ~overlap =>
        \A p \in Procs :
            (Started(p) /\ ~HasCore(before[p])) =>
                /\ pc[p] # "infused"
                /\ ~Returned(p)
                /\ Package(p) = before[p]

(***************************************************************************)
(* upload_sop.py.  The script is a sequence of statements at module level; *)
(* exit(n) ends it with status n, an exception that nothing catches ends   *)
(* it with status 1, and reaching the end of the file ends it with 0.      *)
(* What the server answers is not in the script's hands: every answer is   *)
(* chosen freely.  The session follows redirects, as requests does when    *)
(* allow_redirects is not given: an answer with a redirect status and a    *)
(* Location header is followed by a GET of the target, and the response    *)
(* the script sees is the last one.                                        *)
(***************************************************************************)
Answer(status_code, location, text) ==
    [status_code |-> status_code, location |-> location, text |-> text]

(* The page bodies that matter to the script: the SOP page with its hidden *)
(* __RequestVerificationToken input, any other HTML, the "Object moved"    *)
(* body of a redirect, and the JSON of SaveSopFile.                        *)
Bodies == {"token_form", "html", "json_success", "json_failure"}

Answers ==
    {Answer(200, FALSE, body) : body \in Bodies}
        \cup {Answer(302, TRUE, "moved"), Answer(302, FALSE, "moved"),
              Answer(500, FALSE, "html")}

IsRedirect(a) == a.status_code = 302 /\ a.location

FinalAnswers == {a \in Answers : ~IsRedirect(a)}

Request(method, url, answer) ==
    [method |-> method, url |-> url, status_code |-> answer.status_code]

login_url == "https://jgiquality.qualer.com/login"
login_post_url == "https://jgiquality.qualer.com/login?returnUrl=%2FSop%2FSops_Read"
sop_url == "https://jgiquality.qualer.com/Sop/Sop?sopId=2351"
upload_url == "https://jgiquality.qualer.com/Sop/SaveSopFile"
RedirectTarget == "<Location>"

(* session.get / session.post: the requests that go out for one call, the *)
(* redirect of the first answer followed, and the response handed back.   *)
Exchange(method, url, first, last) ==
    IF IsRedirect(first)
    THEN [requests |-> <<Request(method, url, first),
                         Request("GET", RedirectTarget, last)>>,
          response |-> [status_code |-> last.status_code, text |-> last.text]]
    ELSE [requests |-> <<Request(method, url, first)>>,
          response |-> [status_code |-> first.status_code, text |-> first.text]]

SopExit(code) == [sop EXCEPT !.pc = "ended", !.exit = Exited(code)]

(* bool(os.getenv(...)): None and "" are false *)
Credential(v) == v.some /\ v.s # <<>>

(* lines 9-14 *)
SopCredentials ==
    /\ sop.pc = "start"
    /\ sop' = IF ~Credential(sop.QUALER_EMAIL) \/ ~Credential(sop.QUALER_PASSWORD)
              THEN SopExit(1)
              ELSE [sop EXCEPT !.pc = "get_login"]
    /\ UNCHANGED <<pipelineVars, mainVars, refVars, cliVars, sent, waitVars, e2eVars>>

(* The cookies of the session after the GET: none, others only, the token *)
(* cookie, the token cookie with an empty value.                          *)
CookieJars == {"none", "other", "token", "token_empty"}

(* lines 24-37 *)
SopGetLogin ==
    /\ sop.pc = "get_login"
    /\ \E first \in Answers, last \in FinalAnswers, jar \in CookieJars :
          LET x == Exchange("GET", login_url, first, last) IN
          /\ sent' = sent \o x.requests
          /\ sop' = IF jar # "token"
                    THEN SopExit(1)
                    ELSE [sop EXCEPT !.pc = "login", !.csrf_cookie = TRUE]
    /\ UNCHANGED <<pipelineVars, mainVars, refVars, cliVars, waitVars, e2eVars>>

(* lines 43-60 *)
SopLogin ==
    /\ sop.pc = "login"
    /\ \E first \in Answers, last \in FinalAnswers :
          LET x == Exchange("POST", login_post_url, first, last) IN
          /\ sent' = sent \o x.requests
          /\ sop' = IF x.response.status_code # 302
                    THEN [SopExit(2) EXCEPT !.response = x.response]
                    ELSE [sop EXCEPT !.pc = "file", !.response = x.response]
    /\ UNCHANGED <<pipelineVars, mainVars, refVars, cliVars, waitVars, e2eVars>>

(* lines 69-73 *)
SopFile ==
    /\ sop.pc = "file"
    /\ sop' = IF ~sop.file_exists THEN SopExit(3)
              ELSE [sop EXCEPT !.pc = "get_sop"]
    /\ UNCHANGED <<pipelineVars, mainVars, refVars, cliVars, sent, waitVars, e2eVars>>

(* re.search for the hidden input, lines 91-92 *)
HiddenToken(text) == text = "token_form"

(* lines 76-96 *)
SopGetSop ==
    /\ sop.pc = "get_sop"
    /\ \E first \in Answers, last \in FinalAnswers :
          LET x == Exchange("GET", sop_url, first, last) IN
          /\ sent' = sent \o x.requests
          /\ sop' = IF x.response.status_code # 200
                    THEN [SopExit(4) EXCEPT !.sop_response = x.response]
                    ELSE IF ~HiddenToken(x.response.text)
                    THEN [SopExit(5) EXCEPT !.sop_response = x.response]
                    ELSE [sop EXCEPT !.pc = "upload",
                                     !.sop_response = x.response,
                                     !.csrf_token_value = TRUE]
    /\ UNCHANGED <<pipelineVars, mainVars, refVars, cliVars, waitVars, e2eVars>>

(* upload_response.json(), line 112: raises on a body that is not JSON *)
IsJson(text) == text \in {"json_success", "json_failure"}

(* lines 99-118 *)
SopUpload ==
    /\ sop.pc = "upload"
    /\ \E first \in Answers, last \in FinalAnswers :
          LET x == Exchange("POST", upload_url, first, last) IN
          /\ sent' = sent \o x.requests
          /\ sop' = [(IF x.response.status_code # 200 THEN SopExit(6)
                      ELSE IF ~IsJson(x.response.text) THEN SopExit(1)
                      ELSE SopExit(0))
                     EXCEPT !.upload_response = x.response]
    /\ UNCHANGED <<pipelineVars, mainVars, refVars, cliVars, waitVars, e2eVars>>

(***************************************************************************)
(* SpecSop: one run of upload_sop.py.                                      *)
(***************************************************************************)
InitSop ==
    /\ PipelineIdle
    /\ book = NoBook
    /\ result = NotCalled
    /\ CliIdle /\ WaitIdle /\ E2eIdle
    /\ \E email \in {None, Str(<<>>), Str(<<"user@example.com">>)},
          password \in {None, Str(<<"secret">>)}, file \in BOOLEAN :
          sop = [NoSop EXCEPT !.pc = "start", !.QUALER_EMAIL = email,
                              !.QUALER_PASSWORD = password,
                              !.file_exists = file]
    /\ sent = <<>>

NextSop ==
    SopCredentials \/ SopGetLogin \/ SopLogin \/ SopFile \/ SopGetSop \/ SopUpload

SpecSop == InitSop /\ [][NextSop]_vars

(***************************************************************************)
(* Vocabulary of the properties of upload_sop.py.                          *)
(***************************************************************************)
SentTo(method, url) ==
    {i \in 1..Len(sent) : sent[i].method = method /\ sent[i].url = url}

(* What the server answered to the request itself. *)
AnsweredWith(method, url, status_code) ==
    \E i \in SentTo(method, url) : sent[i].status_code = status_code

UploadSent == SentTo("POST", upload_url) # {}

SopEnded == sop.exit.exited

(* The six steps before the upload, in the order of the script. *)
Passed(k) ==
    CASE k = 1 -> Credential(sop.QUALER_EMAIL) /\ Credential(sop.QUALER_PASSWORD)
      [] k = 2 -> SentTo("GET", login_url) # {} /\ sop.csrf_cookie
      [] k = 3 -> AnsweredWith("POST", login_post_url, 302)
      [] k = 4 -> sop.file_exists
      [] k = 5 -> AnsweredWith("GET", sop_url, 200)
      [] OTHER -> sop.csrf_token_value

ExitCodes == <<1, 1, 2, 3, 4, 5>>

(* The step a request of the script belongs to; the upload comes seventh. *)
StepOf(url) ==
    CASE url = login_url -> 2
      [] url = login_post_url -> 3
      [] url = sop_url -> 5
      [] url = upload_url -> 7
      [] OTHER -> 0

InOrder ==
    \A i, j \in 1..Len(sent) :
        (i < j /\ StepOf(sent[i].url) > 0 /\ StepOf(sent[j].url) > 0)
            => StepOf(sent[i].url) < StepOf(sent[j].url)

(* C26: the upload is posted only after the six steps passed, in order:    *)
(* credentials present, token cookie found after the GET of the login      *)
(* page, login answered 302, file present, SOP page answered 200, hidden   *)
(* token extracted; a run that ended without the upload ended at its first *)
(* failing step, with status 1, 1, 2, 3, 4, 5 for the six steps, and sent  *)
(* no request of a later step; an upload answered otherwise than with 200  *)
(* ends the run with status 6.                                             *)
C26_UploadOnlyAfterSteps ==
    /\ InOrder
    /\ UploadSent => \A k \in 1..6 : Passed(k)
    /\ (SopEnded /\ ~UploadSent) =>
           \E k \in 1..6 :
               /\ ~Passed(k)
               /\ \A j \in 1..(k - 1) : Passed(j)
               /\ sop.exit.code = ExitCodes[k]
               /\ \A i \in 1..Len(sent) : StepOf(sent[i].url) <= k
    /\ (SopEnded /\ UploadSent /\ ~AnsweredWith("POST", upload_url, 200)) =>
           sop.exit.code = 6

(* C27: a run whose upload was answered with 200 ends with status 0.       *)
C27_StatusZeroAfterUpload ==
    (SopEnded /\ sop.upload_response.status_code = 200) => sop.exit.code = 0

(***************************************************************************)
(* XLTestIntegration.wait_for_checks, tests/test_integration_xl_test.py    *)
(* lines 196-274.  wait.clock is time.time() - start_time in seconds.  A   *)
(* JSON value that may be missing or null is one of "absent", "null",      *)
(* "true", "false".                                                        *)
(***************************************************************************)
MaxRuns == 2
MaxTimeout == 30

(* dict.get(key, default) *)
DictGet(value, default) == IF value = "absent" THEN default ELSE value

(* not x, for x one of None, True, False *)
PyNot(value) == value \in {"null", "false"}

CheckRun(status, conclusion) == [status |-> status, conclusion |-> conclusion]

CheckRuns ==
    {CheckRun("queued", "null"), CheckRun("completed", "success"),
     CheckRun("completed", "failure")}

(* What get_pull_request_status can return, lines 169-194; an open pull   *)
(* request is not merged.                                                  *)
PullRequests ==
    {pr \in [mergeable : {"absent", "null", "true", "false"},
             state : {"open", "closed"},
             merged : {"absent", "true", "false"}] :
        pr.state = "open" => pr.merged = "false"}

StatusInfos ==
    [pr : PullRequests,
     status : [state : {"pending", "success", "failure", "error"}],
     checks : [check_runs : SeqsUpTo(CheckRuns, MaxRuns)]]

(* How long the three requests of one poll take. *)
RequestSeconds == {0, 5}

AllCompleted(check_runs) ==
    \A i \in 1..Len(check_runs) : check_runs[i].status = "completed"

AllSuccess(check_runs) ==
    \A i \in 1..Len(check_runs) : check_runs[i].conclusion = "success"

(* lines 208-263: the verdict of one poll, if it has one *)
Verdict(info) ==
    LET pr_data == info.pr
        status_state == info.status.state
        check_runs == info.checks.check_runs IN
    IF PyNot(DictGet(pr_data.mergeable, "true"))
    THEN [some |-> TRUE, value |-> FALSE]
    ELSE IF pr_data.state = "closed"
    THEN [some |-> TRUE, value |-> DictGet(pr_data.merged, "false") = "true"]
    ELSE IF check_runs # <<>> /\ AllCompleted(check_runs)
    THEN [some |-> TRUE, value |-> AllSuccess(check_runs)]
    ELSE IF status_state \in {"success", "failure", "error"}
    THEN [some |-> TRUE, value |-> status_state = "success"]
    ELSE [some |-> FALSE, value |-> FALSE]

(* line 205, and lines 272-274 when the test fails *)
WaitTest ==
    /\ wait.pc = "loop"
    /\ wait' = IF wait.clock < wait.timeout
               THEN [wait EXCEPT !.pc = "poll"]
               ELSE [wait EXCEPT !.pc = "raised",
                                 !.error = "GitHubIntegrationError"]
    /\ UNCHANGED <<pipelineVars, mainVars, refVars, cliVars, sopVars, status_info,
                   e2eVars>>

(* lines 206-267: the status is fetched and looked at; a request that      *)
(* fails raises out of the function (raise_for_status, lines 173-187)      *)
WaitPoll ==
    /\ wait.pc = "poll"
    /\ \E d \in RequestSeconds :
          \/ /\ status_info' \in StatusInfos
             /\ LET v == Verdict(status_info')
                    started == wait.checks_started
                                   \/ status_info'.checks.check_runs # <<>> IN
                wait' = [wait EXCEPT
                            !.clock = @ + d,
                            !.checks_started = IF v.some THEN @ ELSE started,
                            !.poll_interval = IF ~v.some /\ started THEN 30 ELSE @,
                            !.value = v.value,
                            !.pc = IF v.some THEN "returned" ELSE "sleep"]
          \/ /\ wait' = [wait EXCEPT !.clock = @ + d, !.pc = "raised",
                                     !.error = "HTTPError"]
             /\ UNCHANGED status_info
    /\ UNCHANGED <<pipelineVars, mainVars, refVars, cliVars, sopVars, e2eVars>>

(* A sleep during which no time passes. *)
WaitSleepFrozen ==
    /\ wait.pc = "sleep"
    /\ wait' = [wait EXCEPT !.pc = "loop"]
    /\ UNCHANGED <<pipelineVars, mainVars, refVars, cliVars, sopVars, status_info,
                   e2eVars>>

(* lines 269-270 *)
WaitSleep ==
    /\ wait.pc = "sleep"
    /\ wait' = [wait EXCEPT !.pc = "loop", !.clock = @ + wait.poll_interval]
    /\ UNCHANGED <<pipelineVars, mainVars, refVars, cliVars, sopVars, status_info,
                   e2eVars>>

(***************************************************************************)
(* SpecWait: one call of wait_for_checks.  SpecWaitFair adds that the      *)
(* function, once called, goes on running: its next statement is executed. *)
(***************************************************************************)
Timeouts == {0, MaxTimeout}

InitWait ==
    /\ PipelineIdle
    /\ book = NoBook
    /\ result = NotCalled
    /\ CliIdle /\ SopIdle /\ E2eIdle
    /\ \E timeout \in Timeouts :
          wait = [NoWait EXCEPT !.pc = "loop", !.timeout = timeout,
                                !.poll_interval = 15]
    /\ status_info = NoStatusInfo

NextWait == WaitTest \/ WaitPoll \/ WaitSleep

SpecWait == InitWait /\ [][NextWait]_vars

SpecWaitFair == SpecWait /\ WF_vars(NextWait)

(***************************************************************************)
(* Vocabulary of the properties of wait_for_checks.                        *)
(***************************************************************************)
WaitOver == wait.pc \in {"returned", "raised"}

TimedOut == wait.pc = "raised" /\ wait.error = "GitHubIntegrationError"

(* A step that is a sleep lasts 15 seconds as long as no poll has seen a   *)
(* check run and 30 seconds afterwards.                                    *)
SleepLasts ==
    (wait.pc = "sleep" /\ wait'.pc = "loop") =>
        wait'.clock - wait.clock = IF wait.checks_started THEN 30 ELSE 15

(* A poll ends with a verdict or with a sleep (or with the error of a      *)
(* request), and only a poll returns.                                      *)
PollEnds ==
    /\ wait.pc = "poll" => wait'.pc \in {"returned", "sleep", "raised"}
    /\ wait'.pc = "returned" => wait.pc \in {"poll", "returned"}

(* At the head of the loop with the timeout reached the next step raises  *)
(* GitHubIntegrationError; no step returns a value from there.             *)
TimeoutRaises ==
    (wait.pc = "loop" /\ wait.clock >= wait.timeout) =>
        wait'.pc = "raised" /\ wait'.error = "GitHubIntegrationError"

(* C28: wait_for_checks always ends.  Each poll ends with a verdict or     *)
(* with a sleep of 15 seconds before any check run was seen and of 30      *)
(* seconds after; when the elapsed time has reached the timeout at the     *)
(* head of the loop the function raises GitHubIntegrationError, which it   *)
(* does in no other case, and it returns no value then.                    *)
C28_WaitAlwaysEnds ==
    /\ <>WaitOver
    /\ [][SleepLasts /\ PollEnds /\ TimeoutRaises]_vars
    /\ [](TimedOut => wait.clock >= wait.timeout)

(* A wait that polled, slept for 15 and for 30 seconds and timed out.      *)
C28_Witness ==
    /\ TimedOut
    /\ wait.checks_started
    /\ wait.timeout = MaxTimeout
    /\ wait.clock >= 45

RunsVerdict ==
    /\ status_info.checks.check_runs # <<>>
    /\ AllCompleted(status_info.checks.check_runs)

Returned_(value) == wait.pc = "returned" /\ wait.value = value

(* C29: wait_for_checks returns True only for a pull request closed and    *)
(* merged, for check runs all completed with success, or, without a        *)
(* verdict of the check runs, for a legacy status success; it returns      *)
(* False only for mergeable false, for a pull request closed unmerged, for *)
(* check runs all completed and not all successful, or for a legacy status *)
(* failure or error; a mergeable that is absent or null does not end the   *)
(* wait.                                                                   *)
C29_VerdictConditions ==
    LET pr_data == status_info.pr
        legacy == status_info.status.state
        check_runs == status_info.checks.check_runs IN
    /\ Returned_(TRUE) =>
           \/ pr_data.state = "closed" /\ pr_data.merged = "true"
           \/ RunsVerdict /\ AllSuccess(check_runs)
           \/ ~RunsVerdict /\ legacy = "success"
    /\ Returned_(FALSE) =>
           \/ pr_data.mergeable = "false"
           \/ pr_data.state = "closed" /\ pr_data.merged # "true"
           \/ RunsVerdict /\ ~AllSuccess(check_runs)
           \/ legacy \in {"failure", "error"}
    /\ (/\ pr_data.mergeable \in {"absent", "null"}
        /\ pr_data.state = "open"
        /\ ~RunsVerdict
        /\ legacy = "pending") => wait.pc # "returned"

(***************************************************************************)
(* TestXLIntegration, tests/test_integration_xl_test.py lines 302-418:     *)
(* setup_method, test_ci_scripts_end_to_end_workflow, teardown_method.     *)
(* remote is the xl-test repository: the branches and pull requests the    *)
(* test created there, and the close and delete requests it received.  A   *)
(* call of the helper class either is carried out and returns, or is       *)
(* refused and raises (raise_for_status) without effect.                   *)
(***************************************************************************)
broken_branch == "ci-test-broken"
valid_branch == "ci-test-valid"
broken_pr_number == 101
valid_pr_number == 102

(* The statements of the try block, lines 344-412, in order. *)
Steps ==
    <<"create_broken_branch", "create_valid_branch", "update_broken",
      "update_valid", "create_broken_pr", "create_valid_pr", "wait_broken",
      "close_broken", "wait_valid", "merge_valid">>

StepAfter(step) ==
    LET i == CHOOSE k \in 1..Len(Steps) : Steps[k] = step IN
    IF i = Len(Steps) THEN "teardown_prs" ELSE Steps[i + 1]

(* A close or delete request: by the test (line 401) or by teardown_method *)
Attempt(op, target, ok, by) == [op |-> op, target |-> target, ok |-> ok, by |-> by]

(* lines 305-309; the class is skipped without GITHUB_TOKEN (line 299) *)
SetupMethod ==
    /\ e2e.pc = "setup"
    /\ e2e' = [e2e EXCEPT !.pc = Steps[1], !.test_branches = <<>>,
                          !.test_prs = <<>>]
    /\ UNCHANGED <<pipelineVars, mainVars, refVars, cliVars, sopVars, waitVars,
                   remote>>

(* except Exception ... pytest.fail, lines 417-418: the test is over and   *)
(* teardown_method runs                                                    *)
Fail == [e2e EXCEPT !.pc = "teardown_prs", !.failed = TRUE]

(* lines 344-348: create_test_branch, then the branch is recorded *)
CreateBranch(step, branch_name) ==
    /\ e2e.pc = step
    /\ \/ /\ remote' = [remote EXCEPT !.branches = @ \cup {branch_name}]
          /\ e2e' = [e2e EXCEPT !.pc = StepAfter(step),
                                !.test_branches = Append(@, branch_name)]
       \/ /\ remote' = remote
          /\ e2e' = Fail
    /\ UNCHANGED <<pipelineVars, mainVars, refVars, cliVars, sopVars, waitVars>>

(* lines 355-369: update_file_in_repo *)
UpdateFile(step) ==
    /\ e2e.pc = step
    /\ e2e' \in {[e2e EXCEPT !.pc = StepAfter(step)], Fail}
    /\ UNCHANGED <<pipelineVars, mainVars, refVars, cliVars, sopVars, waitVars,
                   remote>>

(* lines 373-387: create_pull_request, then the number is recorded *)
CreatePullRequest(step, number) ==
    /\ e2e.pc = step
    /\ \/ /\ remote' = [remote EXCEPT !.prs = @ \cup {number}]
          /\ e2e' = [e2e EXCEPT !.pc = StepAfter(step),
                                !.test_prs = Append(@, number)]
       \/ /\ remote' = remote
          /\ e2e' = Fail
    /\ UNCHANGED <<pipelineVars, mainVars, refVars, cliVars, sopVars, waitVars>>

(* lines 392-395 and 407-408: wait_for_checks returns a verdict or raises, *)
(* and the verdict is asserted                                             *)
WaitAndAssert(step, expected) ==
    /\ e2e.pc = step
    /\ \E outcome \in {"True", "False", "raised"} :
          e2e' = IF outcome = expected
                 THEN [e2e EXCEPT !.pc = StepAfter(step)] ELSE Fail
    /\ UNCHANGED <<pipelineVars, mainVars, refVars, cliVars, sopVars, waitVars,
                   remote>>

(* line 401 *)
CloseBroken ==
    /\ e2e.pc = "close_broken"
    /\ \E ok \in BOOLEAN :
          /\ remote' = [remote EXCEPT
                           !.attempts = Append(@, Attempt("close", broken_pr_number, ok,
                                                        "test"))]
          /\ e2e' = IF ok THEN [e2e EXCEPT !.pc = StepAfter("close_broken")]
                    ELSE Fail
    /\ UNCHANGED <<pipelineVars, mainVars, refVars, cliVars, sopVars, waitVars>>

(* line 412 *)
MergeValid ==
    /\ e2e.pc = "merge_valid"
    /\ e2e' \in {[e2e EXCEPT !.pc = StepAfter("merge_valid")], Fail}
    /\ UNCHANGED <<pipelineVars, mainVars, refVars, cliVars, sopVars, waitVars,
                   remote>>

(* A teardown_method whose first failing close ends the clean-up. *)
TeardownCloseAborting ==
    /\ e2e.pc = "teardown_prs"
    /\ IF e2e.next > Len(e2e.test_prs)
       THEN /\ e2e' = [e2e EXCEPT !.pc = "teardown_branches", !.next = 1]
            /\ remote' = remote
       ELSE \E ok \in BOOLEAN :
               /\ remote' = [remote EXCEPT !.attempts =
                      Append(@, Attempt("close", e2e.test_prs[e2e.next], ok,
                                        "teardown"))]
               /\ e2e' = IF ok THEN [e2e EXCEPT !.next = @ + 1]
                         ELSE [e2e EXCEPT !.pc = "done"]
    /\ UNCHANGED <<pipelineVars, mainVars, refVars, cliVars, sopVars, waitVars>>

(* lines 314-319: one pass of the first loop, or its end *)
TeardownClose ==
    /\ e2e.pc = "teardown_prs"
    /\ IF e2e.next > Len(e2e.test_prs)
       THEN /\ e2e' = [e2e EXCEPT !.pc = "teardown_branches", !.next = 1]
            /\ remote' = remote
       ELSE \E ok \in BOOLEAN :
               /\ remote' = [remote EXCEPT !.attempts =
                      Append(@, Attempt("close", e2e.test_prs[e2e.next], ok,
                                        "teardown"))]
               /\ e2e' = [e2e EXCEPT !.next = @ + 1]
    /\ UNCHANGED <<pipelineVars, mainVars, refVars, cliVars, sopVars, waitVars>>

(* lines 321-326: one pass of the second loop, or its end *)
TeardownDelete ==
    /\ e2e.pc = "teardown_branches"
    /\ IF e2e.next > Len(e2e.test_branches)
       THEN /\ e2e' = [e2e EXCEPT !.pc = "done"]
            /\ remote' = remote
       ELSE \E ok \in BOOLEAN :
               /\ remote' = [remote EXCEPT !.attempts =
                      Append(@, Attempt("delete", e2e.test_branches[e2e.next], ok,
                                        "teardown"))]
               /\ e2e' = [e2e EXCEPT !.next = @ + 1]
    /\ UNCHANGED <<pipelineVars, mainVars, refVars, cliVars, sopVars, waitVars>>

(***************************************************************************)
(* SpecE2e: one run of the end-to-end test by pytest, with GITHUB_TOKEN    *)
(* set.  SpecE2eFair adds that pytest goes on: the next statement of the   *)
(* test or of teardown_method is executed.                                 *)
(***************************************************************************)
InitE2e ==
    /\ PipelineIdle
    /\ book = NoBook
    /\ result = NotCalled
    /\ CliIdle /\ SopIdle /\ WaitIdle
    /\ e2e = [NoE2e EXCEPT !.pc = "setup"]
    /\ remote = NoRemote

NextE2e ==
    \/ SetupMethod
    \/ CreateBranch("create_broken_branch", broken_branch)
    \/ CreateBranch("create_valid_branch", valid_branch)
    \/ UpdateFile("update_broken")
    \/ UpdateFile("update_valid")
    \/ CreatePullRequest("create_broken_pr", broken_pr_number)
    \/ CreatePullRequest("create_valid_pr", valid_pr_number)
    \/ WaitAndAssert("wait_broken", "False")
    \/ CloseBroken
    \/ WaitAndAssert("wait_valid", "True")
    \/ MergeValid
    \/ TeardownClose
    \/ TeardownDelete

SpecE2e == InitE2e /\ [][NextE2e]_vars

SpecE2eFair == SpecE2e /\ WF_vars(NextE2e)

(***************************************************************************)
(* Vocabulary of the properties of the end-to-end test.                    *)
(***************************************************************************)
Range(seq) == {seq[i] : i \in 1..Len(seq)}

TeardownAttempts(op) ==
    SelectSeq(remote.attempts, LAMBDA a : a.op = op /\ a.by = "teardown")

Targets(attempts) == {attempts[i].target : i \in 1..Len(attempts)}

E2eDone == e2e.pc = "done"

(* Every teardown close comes before every teardown delete. *)
ClosesBeforeDeletes ==
    \A i, j \in 1..Len(remote.attempts) :
        (/\ remote.attempts[i].by = "teardown"
         /\ remote.attempts[j].by = "teardown"
         /\ remote.attempts[i].op = "close"
         /\ remote.attempts[j].op = "delete") => i < j

(* C30: at every moment every branch and every pull request the test has   *)
(* created in xl-test is recorded in test_branches and test_prs; the run   *)
(* always comes to the end of teardown_method, and by then teardown_method *)
(* has attempted to close every recorded pull request and, after that, to  *)
(* delete every recorded branch, whether or not earlier attempts failed.   *)
C30_CreatedIsRecordedAndCleaned ==
    /\ [](/\ remote.branches \subseteq Range(e2e.test_branches)
          /\ remote.prs \subseteq Range(e2e.test_prs))
    /\ [](E2eDone =>
             /\ Targets(TeardownAttempts("close")) = Range(e2e.test_prs)
             /\ Targets(TeardownAttempts("delete")) = Range(e2e.test_branches)
             /\ remote.prs \subseteq Targets(TeardownAttempts("close"))
             /\ remote.branches \subseteq Targets(TeardownAttempts("delete"))
             /\ ClosesBeforeDeletes)
    /\ <>E2eDone

(* The test failed after both branches and one pull request were created,  *)
(* the close of that pull request failed and so did the first delete, and  *)
(* teardown_method still went through both branches.                       *)
C30_Witness ==
    /\ E2eDone
    /\ e2e.failed
    /\ remote.branches = {broken_branch, valid_branch}
    /\ remote.prs = {broken_pr_number}
    /\ Len(TeardownAttempts("close")) = 1
    /\ ~TeardownAttempts("close")[1].ok
    /\ Len(TeardownAttempts("delete")) = 2
    /\ ~TeardownAttempts("delete")[1].ok

====
